---- MODULE Spec2Model ----
(***************************************************************************)
(* Model of the synthesis-and-sequencing pipeline of sound_experiments:    *)
(* MultiTrackMixer, SongPlayer, AudioMixer, BaseInstrument and its         *)
(* plugins, and NoteFrequencies.                                           *)
(*                                                                         *)
(* Samples, volumes, amplitudes and durations are exact rationals          *)
(* <<numerator, denominator>> in lowest terms with a positive denominator. *)
(* A Python exception is the "status" field of a call's result.            *)
(***************************************************************************)
EXTENDS Integers, Sequences, FiniteSets, TLC

VARIABLES
    ma_arg,               \* the master_amplitude argument given to MultiTrackMixer(...)
    master_amplitude,     \* MultiTrackMixer.master_amplitude
    tracks_with_volumes,  \* the caller's list of (waveform, volume) tuples
    final_mix,            \* what mix_tracks returned or raised, NotCalled before the call
    time_signature,       \* the time_signature argument given to SongPlayer(...)
    player,               \* the SongPlayer object, NoPlayer before construction
    song_data,            \* the caller's score: a list of (note_list, num_beats)
    song_wave,            \* what generate_song_waveform returned or raised
    note_call,            \* the arguments of the last get_note_waveform call
    note_wave,            \* what get_note_waveform returned or raised
    envelope,             \* the last envelope call: its arguments, segments and result
    instrument,           \* the instrument object under test, NoInstrument before construction
    calls,                \* the get_waveform calls made on the instrument, oldest first
    freq_calc,            \* the NoteFrequencies object, NoCalculator before construction
    freq_calls,           \* the get_frequency calls made on it, oldest first
    factory,              \* the InstrumentFactory object, NoFactory before construction
    created,              \* the create_instrument calls made on it, oldest first
    parser,               \* the SongParser object: its tracks, settings and the last line read
    build,                \* what _build_tracks did, NoBuild before the call
    quantized,            \* the normalize_to_16bit calls of a script, oldest first
    data_lock,            \* live_synth.data_lock: the thread holding it, or "free"
    g_oscillators,        \* live_synth.g_oscillators
    audio_thread,         \* where audio_callback stands, with its locals
    main_thread,          \* where the main video loop stands
    last_access           \* the last read or write of g_oscillators and the lock held then

mixerVars == <<ma_arg, master_amplitude, tracks_with_volumes, final_mix>>
playerVars == <<time_signature, player, song_data, song_wave, note_call, note_wave>>
toolVars == <<envelope, instrument, calls, freq_calc, freq_calls>>
appVars == <<factory, created, parser, build, quantized>>
synthVars == <<data_lock, g_oscillators, audio_thread, main_thread, last_access>>
restVars == <<appVars, synthVars>>
vars == <<mixerVars, playerVars, toolVars, restVars>>

----------------------------------------------------------------------------
(* Exact arithmetic standing for Python/numpy float arithmetic.            *)

AbsInt(x) == IF x < 0 THEN -x ELSE x

RECURSIVE GCD(_, _)
GCD(a, b) == IF b = 0 THEN a ELSE GCD(b, a % b)

Rat(n, d) ==
    LET g == GCD(AbsInt(n), AbsInt(d))
        s == IF d < 0 THEN -1 ELSE 1
    IN  <<(s * n) \div g, (s * d) \div g>>

Zero == <<0, 1>>
One == <<1, 1>>

RatAdd(a, b) == Rat(a[1] * b[2] + b[1] * a[2], a[2] * b[2])
RatMul(a, b) == Rat(a[1] * b[1], a[2] * b[2])
RatDiv(a, b) == Rat(a[1] * b[2], a[2] * b[1])
RatNeg(a) == <<-a[1], a[2]>>
RatLt(a, b) == a[1] * b[2] < b[1] * a[2]
RatLe(a, b) == a[1] * b[2] <= b[1] * a[2]
RatAbs(a) == <<AbsInt(a[1]), a[2]>>
RatMax(a, b) == IF RatLt(a, b) THEN b ELSE a
RatMin(a, b) == IF RatLt(b, a) THEN b ELSE a

\* np.clip(x, lo, hi)
NpClip(x, lo, hi) == RatMin(RatMax(x, lo), hi)

\* np.zeros(n)
NpZeros(n) == [i \in 1..n |-> Zero]

MaxInt(S) == CHOOSE m \in S : \A x \in S : x <= m

\* the largest absolute value of w from index i on, acc the largest so far
RECURSIVE PeakFrom(_, _, _)
PeakFrom(w, i, acc) ==
    IF i > Len(w) THEN acc ELSE PeakFrom(w, i + 1, RatMax(acc, RatAbs(w[i])))

\* np.max(np.abs(w)): numpy raises ValueError on a zero-size array
NpMaxAbs(w) ==
    IF Len(w) = 0
    THEN [status |-> "ValueError", val |-> Zero]
    ELSE [status |-> "ok",
          val |-> CHOOSE m \in {RatAbs(w[i]) : i \in 1..Len(w)} :
                      \A i \in 1..Len(w) : RatLe(RatAbs(w[i]), m)]

----------------------------------------------------------------------------
(* MultiTrackMixer                                                         *)

NotCalled == [status |-> "not_called", wave |-> <<>>]
Returned(w) == [status |-> "ok", wave |-> w]
Raised(e) == [status |-> e, wave |-> <<>>]

\* a faulty variant of MixerInit: master_amplitude stored as given
MixerInitNoClamp(master_amplitude_arg) == master_amplitude_arg

\* MultiTrackMixer.__init__
MixerInit(master_amplitude_arg) == NpClip(master_amplitude_arg, Zero, One)

\* a faulty variant of ClampVolume: the volume is used as given
ClampVolumeAsGiven(volume) == volume

\* max(0.0, volume)
ClampVolume(volume) == RatMax(Zero, volume)

\* scaled_track = track_wave * max(0.0, volume)
ScaleTrack(track_wave, volume) ==
    [i \in 1..Len(track_wave) |-> RatMul(track_wave[i], ClampVolume(volume))]

\* master_track[:len(scaled_track)] += scaled_track
AddAtZero(master_track, scaled_track) ==
    [i \in 1..Len(master_track) |->
        IF i <= Len(scaled_track)
        THEN RatAdd(master_track[i], scaled_track[i])
        ELSE master_track[i]]

\* the loop over tracks_with_volumes, from track k on
RECURSIVE SumTracks(_, _, _)
SumTracks(tracks, k, master_track) ==
    IF k > Len(tracks) THEN master_track
    ELSE IF Len(tracks[k][1]) = 0
         THEN SumTracks(tracks, k + 1, master_track)
         ELSE SumTracks(tracks, k + 1,
                        AddAtZero(master_track, ScaleTrack(tracks[k][1], tracks[k][2])))

MaxLen(tracks) == MaxInt({Len(tracks[k][1]) : k \in 1..Len(tracks)})

\* faulty variants of NormalizeMix: never rescale; rescale whenever the peak is positive
NormalizeNever(master_track, max_val) == master_track
NormalizeAlways(master_track, max_val) ==
    IF RatLt(Zero, max_val)
    THEN [i \in 1..Len(master_track) |-> RatDiv(master_track[i], max_val)]
    ELSE master_track

\* if max_val > 1.0: master_track /= max_val
NormalizeMix(master_track, max_val) ==
    IF RatLt(One, max_val)
    THEN [i \in 1..Len(master_track) |-> RatDiv(master_track[i], max_val)]
    ELSE master_track

\* np.clip(master_track * self.master_amplitude, -1.0, 1.0)
FinalClip(master_track, amp) ==
    [i \in 1..Len(master_track) |->
        NpClip(RatMul(master_track[i], amp), RatNeg(One), One)]

\* master_track after the summing loop
SummedTracks(tracks) == SumTracks(tracks, 1, NpZeros(MaxLen(tracks)))

\* MultiTrackMixer.mix_tracks
\* a faulty variant of MixTracks: no early return, so max() of no lengths raises
MixTracksNoEarlyReturn(amp, tracks) ==
    IF Len(tracks) = 0 THEN Raised("ValueError")
    ELSE LET master_track == SummedTracks(tracks)
             max_val == NpMaxAbs(master_track)
         IN  IF max_val.status # "ok" THEN Raised(max_val.status)
             ELSE Returned(FinalClip(NormalizeMix(master_track, max_val.val), amp))

MixTracks(amp, tracks) ==
    IF Len(tracks) = 0 THEN Returned(<<>>)
    ELSE LET master_track == SummedTracks(tracks)
             max_val == NpMaxAbs(master_track)
         IN  IF max_val.status # "ok" THEN Raised(max_val.status)
             ELSE Returned(FinalClip(NormalizeMix(master_track, max_val.val), amp))

----------------------------------------------------------------------------
(* Strings are sequences of one-character strings.                         *)

Digits == {"0", "1", "2", "3", "4", "5", "6", "7", "8", "9"}
DigitVal(c) ==
    CASE c = "0" -> 0 [] c = "1" -> 1 [] c = "2" -> 2 [] c = "3" -> 3
      [] c = "4" -> 4 [] c = "5" -> 5 [] c = "6" -> 6 [] c = "7" -> 7
      [] c = "8" -> 8 [] c = "9" -> 9

\* str.split(sep): the parts between the separators, at least one part
RECURSIVE SplitFrom(_, _, _, _, _)
SplitFrom(s, sep, i, cur, acc) ==
    IF i > Len(s) THEN Append(acc, cur)
    ELSE IF s[i] = sep
         THEN SplitFrom(s, sep, i + 1, <<>>, Append(acc, cur))
         ELSE SplitFrom(s, sep, i + 1, Append(cur, s[i]), acc)

Split(s, sep) == SplitFrom(s, sep, 1, <<>>, <<>>)

RECURSIVE DecimalValue(_, _, _)
DecimalValue(s, i, acc) ==
    IF i > Len(s) THEN acc ELSE DecimalValue(s, i + 1, 10 * acc + DigitVal(s[i]))

\* int(str) on strings of digits and other characters: ValueError unless the
\* string is a non-empty run of digits
PyInt(s) ==
    IF Len(s) > 0 /\ \A i \in 1..Len(s) : s[i] \in Digits
    THEN [status |-> "ok", val |-> DecimalValue(s, 1, 0)]
    ELSE [status |-> "ValueError", val |-> 0]

\* int(x) on a float: truncation toward zero
PyTrunc(x) == IF x[1] >= 0 THEN x[1] \div x[2] ELSE -((-x[1]) \div x[2])

\* str.strip() for the blank " "
RECURSIVE LStrip(_)
LStrip(s) == IF Len(s) > 0 /\ s[1] = " " THEN LStrip(Tail(s)) ELSE s
RECURSIVE RStrip(_)
RStrip(s) ==
    IF Len(s) > 0 /\ s[Len(s)] = " " THEN RStrip(SubSeq(s, 1, Len(s) - 1)) ELSE s
Strip(s) == RStrip(LStrip(s))

\* np.linspace(start, stop, num)[i], i counted from 1
NpLinspace(start, stop, num, i) ==
    IF num = 1 THEN start
    ELSE RatAdd(start, RatMul(Rat(i - 1, num - 1), RatAdd(stop, RatNeg(start))))

----------------------------------------------------------------------------
(* NoteFrequencies                                                         *)

\* NoteFrequencies.note_map, keyed by <<letter, accidental>>
NoteMapKeys ==
    {<<"C", "">>, <<"C", "#">>, <<"D", "b">>, <<"D", "">>, <<"D", "#">>, <<"E", "b">>,
     <<"E", "">>, <<"F", "">>, <<"F", "#">>, <<"G", "b">>, <<"G", "">>, <<"G", "#">>,
     <<"A", "b">>, <<"A", "">>, <<"A", "#">>, <<"B", "b">>, <<"B", "">>}

\* a faulty variant of NoteMap: B flat is given the pitch class of B
NoteMapWrongFlat(k) ==
    CASE k = <<"C", "">> -> 0
      [] k \in {<<"C", "#">>, <<"D", "b">>} -> 1
      [] k = <<"D", "">> -> 2
      [] k \in {<<"D", "#">>, <<"E", "b">>} -> 3
      [] k = <<"E", "">> -> 4
      [] k = <<"F", "">> -> 5
      [] k \in {<<"F", "#">>, <<"G", "b">>} -> 6
      [] k = <<"G", "">> -> 7
      [] k \in {<<"G", "#">>, <<"A", "b">>} -> 8
      [] k = <<"A", "">> -> 9
      [] k = <<"A", "#">> -> 10
      [] k \in {<<"B", "b">>, <<"B", "">>} -> 11

NoteMap(k) ==
    CASE k = <<"C", "">> -> 0
      [] k \in {<<"C", "#">>, <<"D", "b">>} -> 1
      [] k = <<"D", "">> -> 2
      [] k \in {<<"D", "#">>, <<"E", "b">>} -> 3
      [] k = <<"E", "">> -> 4
      [] k = <<"F", "">> -> 5
      [] k \in {<<"F", "#">>, <<"G", "b">>} -> 6
      [] k = <<"G", "">> -> 7
      [] k \in {<<"G", "#">>, <<"A", "b">>} -> 8
      [] k = <<"A", "">> -> 9
      [] k \in {<<"A", "#">>, <<"B", "b">>} -> 10
      [] k = <<"B", "">> -> 11

\* self.semitones_a4 = self.note_map['A'] + 4 * 12
SemitonesA4 == NoteMap(<<"A", "">>) + 4 * 12

NoMatch == [matched |-> FALSE, letter |-> "", accidental |-> "", octave |-> ""]

\* re.compile(r'([A-G])([#b]?)(\d)').match(s): a match anchored at the start
\* only, so anything may follow the digit
NoteRegexMatch(s) ==
    IF Len(s) >= 2 /\ s[1] \in {"A", "B", "C", "D", "E", "F", "G"}
    THEN IF s[2] \in {"#", "b"}
         THEN IF Len(s) >= 3 /\ s[3] \in Digits
              THEN [matched |-> TRUE, letter |-> s[1], accidental |-> s[2], octave |-> s[3]]
              ELSE NoMatch
         ELSE IF s[2] \in Digits
              THEN [matched |-> TRUE, letter |-> s[1], accidental |-> "", octave |-> s[2]]
              ELSE NoMatch
    ELSE NoMatch

\* frequency = self.a4 * (self.twelfth_root_of_2 ** n) is kept as the pair of
\* a4 and the semitone offset n. twelfth_root_of_2 is the double stored by
\* __init__ for 2**(1/12): a rational number, so no power of it is 2 and two
\* pairs with different offsets stand for different values.
None == [kind |-> "None"]
Frequency(a4, n) == [kind |-> "freq", a4 |-> a4, n |-> n]

\* NoteFrequencies.get_frequency
GetFrequency(a4, note_name) ==
    LET m == NoteRegexMatch(Strip(note_name))
    IN  IF ~m.matched THEN None
        ELSE IF <<m.letter, m.accidental>> \notin NoteMapKeys THEN None
        ELSE Frequency(a4, NoteMap(<<m.letter, m.accidental>>)
                               + DigitVal(m.octave) * 12 - SemitonesA4)

\* f < g for two frequencies of one calculator: the root is above 1 and the
\* reference pitch positive, so the order is the order of the offsets
FreqLess(f, g) == f.a4 = g.a4 /\ RatLt(Zero, f.a4) /\ f.n < g.n

\* 2.0 * f: a4 * root**n doubled is (2 * a4) * root**n
Twice(f) == Frequency(RatMul(<<2, 1>>, f.a4), f.n)

\* "if freq:" a float is true unless it is zero
Truthy(freq) == freq.kind = "freq" /\ freq.a4 # Zero

----------------------------------------------------------------------------
(* BaseInstrument                                                          *)

\* BaseInstrument.__init__ as called by each plugin's defaults
Instrument(name, attack_s, decay_s, sustain_level) ==
    [name |-> name, attack_s |-> attack_s, decay_s |-> decay_s,
     sustain_level |-> sustain_level]

\* min(a, b) on integers
Min(a, b) == IF a < b THEN a ELSE b

\* a faulty variant of AdsSegments: decay_samples not clamped to the remainder
AdsSegmentsUnclamped(attack_s, decay_s, num_samples, sample_rate) ==
    LET attack_samples == Min(PyTrunc(RatMul(<<sample_rate, 1>>, attack_s)), num_samples)
        decay_samples == PyTrunc(RatMul(<<sample_rate, 1>>, decay_s))
    IN  [attack_samples |-> attack_samples,
         decay_samples |-> decay_samples,
         sustain_samples |-> num_samples - attack_samples - decay_samples]

\* attack_samples, decay_samples and sustain_samples of apply_ads_envelope
AdsSegments(attack_s, decay_s, num_samples, sample_rate) ==
    LET attack_samples == Min(PyTrunc(RatMul(<<sample_rate, 1>>, attack_s)), num_samples)
        decay_samples == Min(PyTrunc(RatMul(<<sample_rate, 1>>, decay_s)),
                             num_samples - attack_samples)
    IN  [attack_samples |-> attack_samples,
         decay_samples |-> decay_samples,
         sustain_samples |-> num_samples - attack_samples - decay_samples]

\* a faulty variant of AdsGain: the sustain segment held at 1
AdsGainFlatSustain(inst, num_samples, sample_rate, i) ==
    LET seg == AdsSegments(inst.attack_s, inst.decay_s, num_samples, sample_rate)
    IN  IF i <= seg.attack_samples THEN NpLinspace(Zero, One, seg.attack_samples, i)
        ELSE IF i <= seg.attack_samples + seg.decay_samples
             THEN NpLinspace(One, inst.sustain_level, seg.decay_samples,
                             i - seg.attack_samples)
             ELSE One

\* the gain apply_ads_envelope multiplies onto sample i of num_samples
AdsGain(inst, num_samples, sample_rate, i) ==
    LET seg == AdsSegments(inst.attack_s, inst.decay_s, num_samples, sample_rate)
    IN  IF i <= seg.attack_samples THEN NpLinspace(Zero, One, seg.attack_samples, i)
        ELSE IF i <= seg.attack_samples + seg.decay_samples
             THEN NpLinspace(One, inst.sustain_level, seg.decay_samples,
                             i - seg.attack_samples)
             ELSE inst.sustain_level

\* BaseInstrument.apply_ads_envelope
ApplyAdsEnvelope(inst, waveform, sample_rate) ==
    [i \in 1..Len(waveform) |->
        RatMul(waveform[i], AdsGain(inst, Len(waveform), sample_rate, i))]

\* a faulty variant of NumSamples: the product rounded up instead of truncated
NumSamplesCeil(sample_rate, duration_s) ==
    LET x == RatMul(<<sample_rate, 1>>, duration_s)
    IN  IF x[2] = 1 THEN x[1] ELSE PyTrunc(x) + 1

\* num_samples = int(sample_rate * duration_s)
NumSamples(sample_rate, duration_s) == PyTrunc(RatMul(<<sample_rate, 1>>, duration_s))

\* a faulty variant of NormalizeRaw: the peak is divided out but the amplitude
\* is not applied
NormalizeRawNoAmplitude(raw_wave, max_val, amplitude) ==
    [i \in 1..Len(raw_wave) |->
        IF RatLt(Zero, max_val) THEN RatDiv(raw_wave[i], max_val) ELSE raw_wave[i]]

\* step 2 of get_waveform: if max_val > 0: raw_wave /= max_val; raw_wave *= amplitude
NormalizeRaw(raw_wave, max_val, amplitude) ==
    [i \in 1..Len(raw_wave) |->
        RatMul(IF RatLt(Zero, max_val)
               THEN RatDiv(raw_wave[i], max_val)
               ELSE raw_wave[i],
               amplitude)]

\* a faulty variant of GenerateCalls: the plugin is asked even for a rest
GenerateCallsAlways(frequencies) == 1

\* how often get_waveform calls the plugin's _generate_wave: not at all when
\* "not frequencies" returns the zeros first
GenerateCalls(frequencies) == IF Len(frequencies) = 0 THEN 0 ELSE 1

\* BaseInstrument.get_waveform; raw_wave is what the plugin's _generate_wave
\* returned for the num_samples points of t
GetWaveform(inst, frequencies, duration_s, sample_rate, amplitude, raw_wave) ==
    LET num_samples == NumSamples(sample_rate, duration_s)
    IN  IF Len(frequencies) = 0 THEN Returned(NpZeros(num_samples))
        ELSE LET max_val == NpMaxAbs(raw_wave)
             IN  IF max_val.status # "ok" THEN Raised(max_val.status)
                 ELSE Returned(ApplyAdsEnvelope(
                                   inst,
                                   NormalizeRaw(raw_wave, max_val.val, amplitude),
                                   sample_rate))

----------------------------------------------------------------------------
(* Drums                                                                   *)

\* attack_samples, decay_samples and sustain_samples of Drums._create_envelope
DrumSegments(attack_s, decay_s, num_samples, sample_rate) ==
    LET attack_samples == Min(PyTrunc(RatMul(<<sample_rate, 1>>, attack_s)), num_samples)
        decay_samples == Min(PyTrunc(RatMul(<<sample_rate, 1>>, decay_s)),
                             num_samples - attack_samples)
    IN  [attack_samples |-> attack_samples,
         decay_samples |-> decay_samples,
         sustain_samples |-> num_samples - attack_samples - decay_samples]

\* Drums._create_envelope: env starts as zeros and each segment is written
CreateEnvelope(attack_s, decay_s, sustain_level, num_samples, sample_rate) ==
    LET seg == DrumSegments(attack_s, decay_s, num_samples, sample_rate)
    IN  [i \in 1..num_samples |->
            IF i <= seg.attack_samples /\ seg.attack_samples > 0
            THEN NpLinspace(Zero, One, seg.attack_samples, i)
            ELSE IF i > seg.attack_samples
                    /\ i <= seg.attack_samples + seg.decay_samples
                    /\ seg.decay_samples > 0
                 THEN NpLinspace(One, sustain_level, seg.decay_samples,
                                 i - seg.attack_samples)
                 ELSE IF i > seg.attack_samples + seg.decay_samples
                         /\ seg.sustain_samples > 0
                      THEN sustain_level
                      ELSE Zero]

\* Drums.note_map: the trigger frequency of each generator, from a
\* NoteFrequencies() with the default a4 = 440
DrumNoteMap(gen) ==
    CASE gen = "kick" -> GetFrequency(<<440, 1>>, <<"C", "4">>)
      [] gen = "snare" -> GetFrequency(<<440, 1>>, <<"D", "4">>)
      [] gen = "tom" -> GetFrequency(<<440, 1>>, <<"F", "4">>)
      [] gen = "hat" -> GetFrequency(<<440, 1>>, <<"G", "4">>)

\* np.isclose(f, g), rtol 1e-5: two computed frequencies are close when they
\* stand for the same pitch, that is when their reference pitches differ by
\* the power of two that their semitone offsets make up for; pitches a
\* semitone or more apart are never close
IsClose(f, g) ==
    /\ (g.n - f.n) % 12 = 0
    /\ LET j == (g.n - f.n) \div 12
       IN  IF j >= 0
           THEN f.a4 = RatMul(g.a4, <<2 ^ j, 1>>)
           ELSE RatMul(f.a4, <<2 ^ (-j), 1>>) = g.a4

\* a faulty variant of Dispatch: the hat is tried first and also answers the
\* snare's trigger
DispatchHatFirst(freq) ==
    IF IsClose(freq, DrumNoteMap("hat")) \/ IsClose(freq, DrumNoteMap("snare"))
    THEN "hat"
    ELSE IF IsClose(freq, DrumNoteMap("kick")) THEN "kick"
    ELSE IF IsClose(freq, DrumNoteMap("tom")) THEN "tom"
    ELSE "none"

\* the if / elif chain of Drums._generate_wave for one entry of frequencies
Dispatch(freq) ==
    IF IsClose(freq, DrumNoteMap("kick")) THEN "kick"
    ELSE IF IsClose(freq, DrumNoteMap("snare")) THEN "snare"
    ELSE IF IsClose(freq, DrumNoteMap("hat")) THEN "hat"
    ELSE IF IsClose(freq, DrumNoteMap("tom")) THEN "tom"
    ELSE "none"

\* the local envelope of _create_kick, _create_snare, _create_hat, _create_tom
GeneratorEnvelope(gen, num_samples, sample_rate) ==
    CASE gen = "kick" -> CreateEnvelope(<<1, 1000>>, <<3, 20>>, Zero, num_samples, sample_rate)
      [] gen = "snare" -> CreateEnvelope(<<1, 1000>>, <<1, 10>>, Zero, num_samples, sample_rate)
      [] gen = "hat" -> CreateEnvelope(<<1, 1000>>, <<1, 20>>, Zero, num_samples, sample_rate)
      [] gen = "tom" -> CreateEnvelope(<<1, 1000>>, <<1, 5>>, Zero, num_samples, sample_rate)

\* what a generator returns: its oscillator or noise samples times its envelope
GeneratorWave(gen, source, num_samples, sample_rate) ==
    [i \in 1..num_samples |->
        RatMul(source[i], GeneratorEnvelope(gen, num_samples, sample_rate)[i])]

GenNames == {"kick", "snare", "hat", "tom", "tone"}

\* a faulty variant of UsesNoise: every generator and oscillator draws noise
UsesNoiseAll(gen) == gen \in GenNames

\* the generators that draw from np.random.uniform: _create_snare, _create_hat
UsesNoise(gen) == gen \in {"snare", "hat"}

\* The samples a generator multiplies its envelope onto. The swept sines of
\* kick and tom are functions of (num_samples, sample_rate) alone and are
\* given by det; the noise of snare and hat is drawn anew for every entry of
\* every call and is given by noise.
EntrySource(gen, k, det, noise) == IF UsesNoise(gen) THEN noise[k] ELSE det[gen]

\* mixed_wave += ...
AddWaves(a, b) == [i \in 1..Len(a) |-> RatAdd(a[i], b[i])]

\* the loop of Drums._generate_wave from entry k on
RECURSIVE DrumsMix(_, _, _, _, _, _, _)
DrumsMix(frequencies, num_samples, sample_rate, det, noise, k, mixed_wave) ==
    IF k > Len(frequencies) THEN mixed_wave
    ELSE LET gen == Dispatch(frequencies[k])
         IN  IF gen = "none"
             THEN DrumsMix(frequencies, num_samples, sample_rate, det, noise, k + 1,
                           mixed_wave)
             ELSE DrumsMix(frequencies, num_samples, sample_rate, det, noise, k + 1,
                           AddWaves(mixed_wave,
                                    GeneratorWave(gen, EntrySource(gen, k, det, noise),
                                                  num_samples, sample_rate)))

\* Drums._generate_wave
DrumsGenerateWave(frequencies, num_samples, sample_rate, det, noise) ==
    DrumsMix(frequencies, num_samples, sample_rate, det, noise, 1, NpZeros(num_samples))

\* the plugin's _generate_wave: Drums as above; Sine, Square, Sawtooth, Piano
\* and Bass sum oscillators that are functions of (t, frequencies) alone,
\* given by det
GenerateWave(inst, frequencies, num_samples, sample_rate, det, noise) ==
    IF inst.name = "Drums"
    THEN DrumsGenerateWave(frequencies, num_samples, sample_rate, det, noise)
    ELSE det["tone"]

----------------------------------------------------------------------------
(* AudioMixer and SongPlayer                                               *)

\* AudioMixer.get_silence_waveform
GetSilenceWaveform(sample_rate, duration_s) ==
    NpZeros(NumSamples(sample_rate, duration_s))

\* AudioMixer.get_chord_waveform
GetChordWaveform(inst, frequencies, duration_s, sample_rate, amplitude, raw_wave) ==
    IF Len(frequencies) = 0
    THEN Returned(GetSilenceWaveform(sample_rate, duration_s))
    ELSE GetWaveform(inst, frequencies, duration_s, sample_rate, amplitude, raw_wave)

\* instrument.get_waveform(...) or mixer.get_chord_waveform(instrument, ...):
\* the arguments, what the plugin was given and returned, the buffer handed
\* to the envelope stage, and the result
GetWaveformCall(inst, method, frequencies, duration_s, sample_rate, amplitude, det, noise) ==
    LET num_samples == NumSamples(sample_rate, duration_s)
        generate_calls == GenerateCalls(frequencies)
        raw == IF generate_calls = 0 THEN <<>>
               ELSE GenerateWave(inst, frequencies, num_samples, sample_rate, det, noise)
        result == IF method = "get_chord_waveform"
                  THEN GetChordWaveform(inst, frequencies, duration_s, sample_rate,
                                          amplitude, raw)
                  ELSE GetWaveform(inst, frequencies, duration_s, sample_rate,
                                   amplitude, raw)
    IN  [method |-> method, frequencies |-> frequencies, duration_s |-> duration_s,
         sample_rate |-> sample_rate, amplitude |-> amplitude,
         det |-> det, noise |-> noise,
         triggered |-> IF inst.name = "Drums"
                       THEN [k \in 1..Len(frequencies) |-> Dispatch(frequencies[k])]
                       ELSE <<>>,
         generate_calls |-> generate_calls,
         raw |-> raw,
         normalized |-> IF generate_calls = 1 /\ result.status = "ok"
                        THEN NormalizeRaw(raw, NpMaxAbs(raw).val, amplitude)
                        ELSE <<>>,
         status |-> result.status,
         wave |-> result.wave]

NoPlayer == [constructed |-> FALSE]

\* the time-signature parse of SongPlayer.__init__: <<beats_per_measure, beat_unit>>
ParseTimeSignature(ts) ==
    LET parts == Split(ts, "/")
    IN  IF /\ PyInt(parts[1]).status = "ok"
           /\ Len(parts) >= 2
           /\ PyInt(parts[2]).status = "ok"
        THEN <<PyInt(parts[1]).val, PyInt(parts[2]).val>>
        ELSE <<4, 4>>

\* a faulty variant of QuarterNoteDuration: scaled by beats_per_measure
QuarterNoteByMeasure(tempo, beats_per_measure, beat_unit) ==
    RatMul(Rat(60, tempo), Rat(beats_per_measure, 4))

\* base_beat_duration_s * (beat_unit / 4.0), base_beat_duration_s = 60.0 / tempo
QuarterNoteDuration(tempo, beats_per_measure, beat_unit) ==
    RatMul(Rat(60, tempo), Rat(beat_unit, 4))

\* SongPlayer.__init__
SongPlayerInit(tempo, inst, ts, sample_rate, a4) ==
    LET sig == ParseTimeSignature(ts)
    IN  [constructed |-> TRUE,
         tempo |-> tempo,
         instrument |-> inst,
         sample_rate |-> sample_rate,
         beats_per_measure |-> sig[1],
         beat_unit |-> sig[2],
         base_beat_duration_s |-> Rat(60, tempo),
         quarter_note_duration_s |-> QuarterNoteDuration(tempo, sig[1], sig[2]),
         a4 |-> a4]

\* a faulty variant of ResolveNotes: resolution stops at the first unresolvable name
RECURSIVE ResolveUntilFailure(_, _, _)
ResolveUntilFailure(a4, note_list, k) ==
    IF k > Len(note_list) THEN <<>>
    ELSE LET freq == GetFrequency(a4, note_list[k])
         IN  IF Truthy(freq)
             THEN <<freq>> \o ResolveUntilFailure(a4, note_list, k + 1)
             ELSE <<>>

\* step 1 of get_note_waveform: the frequencies of the names of note_list
RECURSIVE ResolveNotes(_, _, _)
ResolveNotes(a4, note_list, k) ==
    IF k > Len(note_list) THEN <<>>
    ELSE LET freq == GetFrequency(a4, note_list[k])
         IN  IF Truthy(freq)
             THEN <<freq>> \o ResolveNotes(a4, note_list, k + 1)
             ELSE ResolveNotes(a4, note_list, k + 1)

\* a faulty variant of FadeOut: the ramp laid over the first fade_out_samples
FadeOutHead(base_wave, duration_s, sample_rate) ==
    LET fade_duration_s == RatMin(RatMul(duration_s, <<1, 20>>), <<1, 100>>)
        fade_out_samples == PyTrunc(RatMul(<<sample_rate, 1>>, fade_duration_s))
    IN  IF fade_out_samples > 0 /\ Len(base_wave) > fade_out_samples
        THEN [i \in 1..Len(base_wave) |->
                 IF i <= fade_out_samples
                 THEN RatMul(base_wave[i], NpLinspace(One, Zero, fade_out_samples, i))
                 ELSE base_wave[i]]
        ELSE base_wave

\* step 3 of get_note_waveform: the release fade over the last fade_out_samples
FadeOut(base_wave, duration_s, sample_rate) ==
    LET fade_duration_s == RatMin(RatMul(duration_s, <<1, 20>>), <<1, 100>>)
        fade_out_samples == PyTrunc(RatMul(<<sample_rate, 1>>, fade_duration_s))
        first == Len(base_wave) - fade_out_samples
    IN  IF fade_out_samples > 0 /\ Len(base_wave) > fade_out_samples
        THEN [i \in 1..Len(base_wave) |->
                 IF i > first
                 THEN RatMul(base_wave[i],
                             NpLinspace(One, Zero, fade_out_samples, i - first))
                 ELSE base_wave[i]]
        ELSE base_wave

\* SongPlayer.get_note_waveform; the result also records the frequencies
\* handed to get_chord_waveform
GetNoteWaveform(p, note_list, duration_s, amplitude, raw_wave) ==
    LET frequencies == ResolveNotes(p.a4, note_list, 1)
        base_wave == GetChordWaveform(p.instrument, frequencies, duration_s,
                                      p.sample_rate, amplitude, raw_wave)
    IN  IF base_wave.status # "ok"
        THEN [status |-> base_wave.status, wave |-> <<>>, frequencies |-> frequencies]
        ELSE [status |-> "ok",
              wave |-> FadeOut(base_wave.wave, duration_s, p.sample_rate),
              frequencies |-> frequencies]

\* does the event reach the plugin's _generate_wave, and on how many points
NeedsRaw(p, note_list) == Len(ResolveNotes(p.a4, note_list, 1)) > 0

\* duration_s = self.quarter_note_duration_s * num_beats
EventDuration(p, num_beats) == RatMul(p.quarter_note_duration_s, num_beats)

\* the loop of generate_song_waveform from event k on: all_wave_chunks, or the
\* exception a chunk raised
RECURSIVE RenderChunks(_, _, _, _, _)
RenderChunks(p, data, amplitude, raws, k) ==
    IF k > Len(data) THEN [status |-> "ok", chunks |-> <<>>]
    ELSE LET chunk == GetNoteWaveform(p, data[k][1], EventDuration(p, data[k][2]),
                                      amplitude, raws[k])
         IN  IF chunk.status # "ok" THEN [status |-> chunk.status, chunks |-> <<>>]
             ELSE LET rest == RenderChunks(p, data, amplitude, raws, k + 1)
                      entry == [wave |-> chunk.wave,
                                frequencies |-> chunk.frequencies,
                                duration_s |-> EventDuration(p, data[k][2])]
                  IN  IF rest.status # "ok" THEN rest
                      ELSE [status |-> "ok", chunks |-> <<entry>> \o rest.chunks]

\* a faulty variant of Concatenate: the chunks joined last to first
RECURSIVE ConcatenateReversed(_, _)
ConcatenateReversed(chunks, k) ==
    IF k > Len(chunks) THEN <<>>
    ELSE ConcatenateReversed(chunks, k + 1) \o chunks[k].wave

\* np.concatenate(all_wave_chunks)
RECURSIVE Concatenate(_, _)
Concatenate(chunks, k) ==
    IF k > Len(chunks) THEN <<>> ELSE chunks[k].wave \o Concatenate(chunks, k + 1)

\* SongPlayer.generate_song_waveform; np.concatenate raises ValueError on an
\* empty list. The result also records all_wave_chunks, each chunk with the
\* frequencies and the duration_s it was rendered from.
GenerateSongWaveform(p, data, amplitude, raws) ==
    LET rendered == RenderChunks(p, data, amplitude, raws, 1)
    IN  IF rendered.status # "ok"
        THEN [status |-> rendered.status, wave |-> <<>>, chunks |-> <<>>,
              raws |-> <<>>, amplitude |-> Zero]
        ELSE IF Len(rendered.chunks) = 0
             THEN [status |-> "ValueError", wave |-> <<>>, chunks |-> <<>>,
                   raws |-> <<>>, amplitude |-> Zero]
             ELSE [status |-> "ok",
                   wave |-> Concatenate(rendered.chunks, 1),
                   chunks |-> rendered.chunks,
                   raws |-> <<>>, amplitude |-> Zero]

----------------------------------------------------------------------------
(* Inputs                                                                  *)

MaxTracks == 2
MaxSamples == 3
MaxSigLen == 4
MaxEvents == 2
MaxEnvLen == 4
MaxCalls == 2
MaxChord == 2
MaxNameLen == 4
MaxCreated == 2
MaxLines == 4

SampleVals == {<<-3, 2>>, <<0, 1>>, <<1, 2>>}
Volumes == {<<-1, 1>>, <<1, 1>>, <<2, 1>>}
MasterAmplitudes == {<<-1, 2>>, <<4, 5>>, <<1, 1>>, <<3, 2>>}

Waves(n) == UNION {[1..k -> SampleVals] : k \in 0..n}

Tempos == {120, 240}
RetimeTempos == {80, 70}
SampleRates == {3, 4}
SongSampleRates == {3}
ReferencePitches == {<<440, 1>>}
Amplitudes == {<<1, 2>>, <<1, 1>>}
SongAmplitudes == {<<1, 1>>}
TimeSigChars == {"6", "8", "/", "x"}
TimeSigStrings == UNION {[1..k -> TimeSigChars] : k \in 0..MaxSigLen}
TimeSignatures == {<<"4", "/", "4">>, <<"6", "/", "8">>, <<"x">>}

\* Sine() and Piano() with their default envelopes
Sine == Instrument("Sine", <<1, 100>>, Zero, One)
Piano == Instrument("Piano", <<1, 500>>, <<3, 10>>, Zero)
Instruments == {Sine, Piano}

\* the other plugins with their default envelopes, and all six variants
Square == Instrument("Square", <<1, 100>>, Zero, One)
Sawtooth == Instrument("Sawtooth", <<1, 100>>, Zero, One)
Bass == Instrument("Bass", <<1, 200>>, <<3, 20>>, <<1, 10>>)
Drums == Instrument("Drums", Zero, Zero, One)
AllInstruments == {Sine, Square, Sawtooth, Piano, Bass, Drums}

\* the constructor of the variant called name, all parameters defaulted
Construct(name) == CHOOSE inst \in AllInstruments : inst.name = name

NoteLists ==
    {<<>>,
     <<<<"A", "4">>>>,
     <<<<"H", "2">>>>,
     <<<<"E", "#", "4">>, <<"A", "b">>>>,
     <<<<"A", "4">>, <<"E", "#", "4">>, <<" ", "C", "#", "5", "x">>>>}
SongNoteLists ==
    {<<>>,
     <<<<"A", "4">>>>,
     <<<<"A", "4">>, <<"E", "#", "4">>, <<" ", "C", "#", "5", "x">>>>}
NumBeats == {Zero, <<1, 2>>, <<1, 1>>}
Durations == {Zero, <<1, 4>>, <<1, 2>>, <<3, 4>>, <<1, 1>>}
RawVals == {<<-1, 1>>, <<1, 2>>}

\* envelope parameters and buffers for direct envelope calls; the samples are
\* non-zero
AttackTimes == {Zero, <<1, 4>>, <<1, 2>>, <<2, 1>>}
DecayTimes == {Zero, <<1, 3>>, <<1, 2>>, <<1, 1>>}
SustainLevels == {Zero, <<1, 2>>, One}
EnvVals == {<<-1, 2>>, <<1, 1>>}
EnvWaves == UNION {[1..k -> EnvVals] : k \in 0..MaxEnvLen}

\* sample rates and durations long enough for the release fade to cover 0, 1,
\* 2 or 3 samples
FadeSampleRates == {100, 200, 300}
FadeDurations == {<<1, 10>>, <<1, 5>>}

\* what _generate_wave may return for an event: num_samples samples when the
\* event reaches the plugin, nothing otherwise
RawWaves(p, note_list, duration_s) ==
    IF NeedsRaw(p, note_list)
    THEN [1..NumSamples(p.sample_rate, duration_s) -> RawVals]
    ELSE {<<>>}

\* three shapes of a long _generate_wave result: two constant, one alternating
LongRawWaves(p, note_list, duration_s) ==
    IF NeedsRaw(p, note_list)
    THEN LET n == NumSamples(p.sample_rate, duration_s)
         IN  {[i \in 1..n |-> v] : v \in RawVals}
                 \cup {[i \in 1..n |-> IF i % 2 = 1 THEN <<-1, 1>> ELSE <<1, 2>>]}
    ELSE {<<>>}

RECURSIVE RawChoices(_, _, _)
RawChoices(p, data, k) ==
    IF k > Len(data) THEN {<<>>}
    ELSE {<<r>> \o rest :
             r \in RawWaves(p, data[k][1], EventDuration(p, data[k][2])),
             rest \in RawChoices(p, data, k + 1)}

RECURSIVE TotalSamples(_, _)
TotalSamples(tracks, k) ==
    IF k > Len(tracks) THEN 0 ELSE Len(tracks[k][1]) + TotalSamples(tracks, k + 1)

NoSong ==
    [status |-> "not_called", wave |-> <<>>, chunks |-> <<>>, raws |-> <<>>,
     amplitude |-> Zero]
NoNote == [status |-> "not_called", wave |-> <<>>, frequencies |-> <<>>]
NoCall == [called |-> FALSE]

MixerIdle ==
    /\ ma_arg = Zero
    /\ master_amplitude = Zero
    /\ tracks_with_volumes = <<>>
    /\ final_mix = NotCalled

PlayerIdle ==
    /\ time_signature = <<>>
    /\ player = NoPlayer
    /\ song_data = <<>>
    /\ song_wave = NoSong
    /\ note_call = NoCall
    /\ note_wave = NoNote

\* direct instrument calls: one sample rate, durations of 0, 1 and 2 samples
InstSampleRates == {20}
InstDurations == {Zero, <<1, 20>>, <<1, 10>>}
InstAmplitudes == {<<-1, 2>>, One}
DrumDurations == {Zero, <<1, 20>>, <<1, 10>>, <<3, 20>>}
Methods == {"get_waveform", "get_chord_waveform"}

\* the frequency of a note name on a NoteFrequencies() with a4 = 440, and the
\* pitch of C3 on one with a4 = 880, which is the pitch of C4 again
Note(name) == GetFrequency(<<440, 1>>, name)
HighC3 == GetFrequency(<<880, 1>>, <<"C", "3">>)

ToneLists ==
    {<<>>, <<Note(<<"A", "4">>)>>, <<Note(<<"A", "4">>), Note(<<"C", "4">>)>>}
DrumLists ==
    {<<>>,
     <<Note(<<"C", "4">>)>>,
     <<Note(<<"D", "4">>)>>,
     <<Note(<<"A", "4">>)>>,
     <<Note(<<"C", "4">>), Note(<<"D", "4">>)>>,
     <<Note(<<"D", "4">>), Note(<<"G", "4">>)>>,
     <<Note(<<"F", "4">>), Note(<<"C", "4">>)>>}
FrequencyLists(inst) == IF inst.name = "Drums" THEN DrumLists ELSE ToneLists

\* the entries of a drum chord: the four triggers, C4 reached from another
\* reference pitch, and two pitches that trigger nothing
DrumEntries ==
    {Note(<<"C", "4">>), Note(<<"D", "4">>), Note(<<"F", "4">>), Note(<<"G", "4">>),
     HighC3, Note(<<"A", "4">>)}
DrumChords == UNION {[1..k -> DrumEntries] : k \in 0..MaxChord}

\* the values an oscillator sum and a drum source may take
ToneVals == {<<-1, 1>>, Zero, <<1, 2>>}
SourceVals == {<<-1, 1>>, <<1, 2>>}
Sources(gen, num_samples) ==
    [1..num_samples -> IF gen = "tone" THEN ToneVals ELSE SourceVals]

\* does the call evaluate the deterministic generator gen
Needed(inst, frequencies, gen) ==
    IF inst.name = "Drums"
    THEN /\ ~UsesNoise(gen)
         /\ \E k \in 1..Len(frequencies) : Dispatch(frequencies[k]) = gen
    ELSE gen = "tone" /\ Len(frequencies) > 0

SourcesIfNeeded(inst, frequencies, gen, num_samples) ==
    IF Needed(inst, frequencies, gen) THEN Sources(gen, num_samples) ELSE {<<>>}

\* what the deterministic generators may compute for a call
DetChoices(inst, frequencies, num_samples) ==
    {[gen \in GenNames |->
         CASE gen = "kick" -> kick
           [] gen = "tom" -> tom
           [] gen = "tone" -> tone
           [] OTHER -> <<>>] :
        kick \in SourcesIfNeeded(inst, frequencies, "kick", num_samples),
        tom \in SourcesIfNeeded(inst, frequencies, "tom", num_samples),
        tone \in SourcesIfNeeded(inst, frequencies, "tone", num_samples)}

\* what np.random.uniform may return, entry by entry from entry k on
RECURSIVE NoiseChoices(_, _, _, _)
NoiseChoices(inst, frequencies, num_samples, k) ==
    IF k > Len(frequencies) THEN {<<>>}
    ELSE {<<drawn>> \o rest :
             drawn \in (IF inst.name = "Drums" /\ UsesNoise(Dispatch(frequencies[k]))
                        THEN Sources(Dispatch(frequencies[k]), num_samples)
                        ELSE {<<>>}),
             rest \in NoiseChoices(inst, frequencies, num_samples, k + 1)}

\* a deterministic generator computes what it computed in an earlier call on
\* the same inputs: its sample count and rate, and for the tonal plugins the
\* frequencies and the duration
Consistent(det, inst, frequencies, duration_s, sample_rate, earlier) ==
    \A c \in 1..Len(earlier) : \A gen \in GenNames :
        (/\ ~UsesNoise(gen)
         /\ Needed(inst, frequencies, gen)
         /\ Needed(inst, earlier[c].frequencies, gen)
         /\ earlier[c].sample_rate = sample_rate
         /\ NumSamples(sample_rate, earlier[c].duration_s)
               = NumSamples(sample_rate, duration_s)
         /\ gen = "tone" => (/\ earlier[c].frequencies = frequencies
                             /\ earlier[c].duration_s = duration_s))
        => det[gen] = earlier[c].det[gen]

\* reference pitches a calculator is built with
CalculatorPitches == {<<440, 1>>, <<432, 1>>}

\* strings of up to MaxNameLen characters handed to get_frequency
NameChars == {"A", "E", "#", "b", "4", "0", " ", "x"}
NameStrings == UNION {[1..k -> NameChars] : k \in 0..MaxNameLen}

\* a letter, an optional accidental and an octave digit
PitchNames ==
    {<<l, d>> : l \in {"A", "B", "C", "D", "E", "F", "G"}, d \in Digits}
        \cup {<<l, a, d>> : l \in {"A", "B", "C", "D", "E", "F", "G"},
                            a \in {"#", "b"}, d \in Digits}

NoEnvelope == [called |-> FALSE]
NoCalculator == [constructed |-> FALSE]

NoInstrument == [constructed |-> FALSE]

----------------------------------------------------------------------------
(* InstrumentFactory                                                       *)

Uppers ==
    <<"A", "B", "C", "D", "E", "F", "G", "H", "I", "J", "K", "L", "M", "N", "O", "P",
      "Q", "R", "S", "T", "U", "V", "W", "X", "Y", "Z">>
Lowers ==
    <<"a", "b", "c", "d", "e", "f", "g", "h", "i", "j", "k", "l", "m", "n", "o", "p",
      "q", "r", "s", "t", "u", "v", "w", "x", "y", "z">>

\* a faulty variant of StrLower: the name is looked up as given
StrLowerAsGiven(s) == s

\* str.lower()
StrLower(s) ==
    [i \in 1..Len(s) |->
        IF \E j \in 1..26 : Uppers[j] = s[i]
        THEN Lowers[CHOOSE j \in 1..26 : Uppers[j] = s[i]]
        ELSE s[i]]

\* the modules of the plugin directory and the BaseInstrument subclasses each
\* defines; base_instrument.py defines none
PluginModules == {"basic_synths", "bass", "drums", "piano"}
ModuleClasses(module) ==
    CASE module = "basic_synths" -> {"Sine", "Square", "Sawtooth"}
      [] module = "bass" -> {"Bass"}
      [] module = "drums" -> {"Drums"}
      [] module = "piano" -> {"Piano"}

\* a class name as a string of characters
ClassChars(class) ==
    CASE class = "Sine" -> <<"S", "i", "n", "e">>
      [] class = "Square" -> <<"S", "q", "u", "a", "r", "e">>
      [] class = "Sawtooth" -> <<"S", "a", "w", "t", "o", "o", "t", "h">>
      [] class = "Bass" -> <<"B", "a", "s", "s">>
      [] class = "Drums" -> <<"D", "r", "u", "m", "s">>
      [] class = "Piano" -> <<"P", "i", "a", "n", "o">>

\* InstrumentFactory._load_plugins: every class of every module that imports,
\* keyed by its lower-cased name; a module whose import fails is skipped
LoadPlugins(importable) ==
    LET classes == UNION {ModuleClasses(m) : m \in importable}
    IN  [key \in {StrLower(ClassChars(c)) : c \in classes} |->
            CHOOSE c \in classes : StrLower(ClassChars(c)) = key]

\* InstrumentFactory.__init__
FactoryInit(importable) ==
    [constructed |-> TRUE, importable |-> importable,
     loaded_plugins |-> LoadPlugins(importable)]

\* instrument_class(**adsr_params): the keywords given override the class's
\* defaults
ConstructWith(class, adsr_params) ==
    LET defaults == Construct(class)
    IN  [f \in DOMAIN defaults |->
            IF f \in DOMAIN adsr_params THEN adsr_params[f] ELSE defaults[f]]

\* InstrumentFactory.create_instrument; instance is the identity of the new
\* object
CreateInstrument(f, name, adsr_params, instance) ==
    LET key == StrLower(name)
    IN  IF key \in DOMAIN f.loaded_plugins
        THEN [status |-> "ok", name |-> name, adsr_params |-> adsr_params,
              obj |-> ConstructWith(f.loaded_plugins[key], adsr_params),
              instance |-> instance]
        ELSE [status |-> "ValueError", name |-> name, adsr_params |-> adsr_params,
              obj |-> NoInstrument, instance |-> 0]

\* what imports: everything; only the modules that do not need scipy; nothing
\* (the plugin directory is not found)
ImportableSets == {PluginModules, {"drums", "piano"}, {}}

FactoryNames ==
    {<<"s", "i", "n", "e">>, <<"S", "i", "n", "e">>, <<"S", "I", "N", "E">>,
     <<"P", "i", "A", "n", "O">>, <<"d", "r", "u", "m", "s">>, <<"B", "a", "s", "s">>,
     <<"b", "a", "n", "j", "o">>, <<" ", "s", "i", "n", "e">>, <<>>,
     <<"B", "a", "s", "e", "I", "n", "s", "t", "r", "u", "m", "e", "n", "t">>}

\* no keywords, and the keywords main.py gives its sawtooth
AdsrParams ==
    {<<>>,
     [attack_s |-> <<1, 20>>, decay_s |-> <<1, 10>>, sustain_level |-> <<7, 10>>]}

----------------------------------------------------------------------------
(* SongParser._parse_file                                                  *)

\* str.upper()
StrUpper(s) ==
    [i \in 1..Len(s) |->
        IF \E j \in 1..26 : Lowers[j] = s[i]
        THEN Uppers[CHOOSE j \in 1..26 : Lowers[j] = s[i]]
        ELSE s[i]]

\* s.startswith(prefix)
StartsWith(s, prefix) ==
    Len(s) >= Len(prefix) /\ SubSeq(s, 1, Len(prefix)) = prefix

\* s[start:-1], start counted from 0
SliceToLast(s, start) ==
    IF start + 1 > Len(s) - 1 THEN <<>> ELSE SubSeq(s, start + 1, Len(s) - 1)

\* s.split(): the non-empty runs between blanks
SplitBlanks(s) == SelectSeq(Split(s, " "), LAMBDA part : Len(part) > 0)

\* the index of the first sep in s, 0 when there is none
FirstIndex(s, sep) ==
    IF \E i \in 1..Len(s) : s[i] = sep
    THEN CHOOSE i \in 1..Len(s) : s[i] = sep /\ \A j \in 1..(i - 1) : s[j] # sep
    ELSE 0

\* int(str) with an optional sign: decimal digits only
PyIntSigned(s) ==
    LET signed == Len(s) > 0 /\ s[1] \in {"+", "-"}
        digits == IF signed THEN Tail(s) ELSE s
    IN  IF PyInt(digits).status # "ok" THEN [status |-> "ValueError", val |-> 0]
        ELSE [status |-> "ok",
              val |-> IF signed /\ s[1] = "-" THEN -PyInt(digits).val
                      ELSE PyInt(digits).val]

RECURSIVE PowerOfTen(_)
PowerOfTen(k) == IF k = 0 THEN 1 ELSE 10 * PowerOfTen(k - 1)

\* float(str) on an optional sign, digits and at most one point, with a digit
\* somewhere: ValueError otherwise
PyFloat(s) ==
    LET signed == Len(s) > 0 /\ s[1] \in {"+", "-"}
        body == IF signed THEN Tail(s) ELSE s
        point == FirstIndex(body, ".")
        whole == IF point = 0 THEN body ELSE SubSeq(body, 1, point - 1)
        frac == IF point = 0 THEN <<>> ELSE SubSeq(body, point + 1, Len(body))
        wellformed == /\ \A i \in 1..Len(whole) : whole[i] \in Digits
                      /\ \A i \in 1..Len(frac) : frac[i] \in Digits
                      /\ Len(whole) + Len(frac) > 0
    IN  IF ~wellformed THEN [status |-> "ValueError", val |-> Zero]
        ELSE LET magnitude == Rat(DecimalValue(whole \o frac, 1, 0),
                                  PowerOfTen(Len(frac)))
             IN  [status |-> "ok",
                  val |-> IF signed /\ s[1] = "-" THEN RatNeg(magnitude)
                          ELSE magnitude]

\* the aliases the score lines below use, by attribute name: single notes,
\* REST and the drum names
AliasNames ==
    {<<"C", "4">>, <<"A", "4">>, <<"R", "E", "S", "T">>, <<"K", "I", "C", "K">>}
AliasNotes(attr) ==
    CASE attr = <<"C", "4">> -> <<<<"C", "4">>>>
      [] attr = <<"A", "4">> -> <<<<"A", "4">>>>
      [] attr = <<"R", "E", "S", "T">> -> <<>>
      [] attr = <<"K", "I", "C", "K">> -> <<<<"C", "4">>>>

\* NoteAliases.get(name): the attribute whose name equals it up to case
AliasGet(name) ==
    IF \E attr \in AliasNames : StrLower(attr) = StrLower(name)
    THEN [found |-> TRUE,
          notes |-> AliasNotes(CHOOSE attr \in AliasNames :
                                   StrLower(attr) = StrLower(name))]
    ELSE [found |-> FALSE, notes |-> <<>>]

\* the loop over note_parts: the notes of the known aliases, in order
RECURSIVE CollectNotes(_, _)
CollectNotes(note_parts, k) ==
    IF k > Len(note_parts) THEN <<>>
    ELSE AliasGet(note_parts[k]).notes \o CollectNotes(note_parts, k + 1)

\* the defaults of SongParser.__init__, as the text int() and float() read
\* them from
DefaultGlobalSettings ==
    [key \in {<<"T", "E", "M", "P", "O">>,
               <<"S", "A", "M", "P", "L", "E", "_", "R", "A", "T", "E">>,
               <<"M", "A", "S", "T", "E", "R", "_", "A", "M", "P", "L", "I", "T", "U",
                 "D", "E">>,
               <<"O", "U", "T", "P", "U", "T", "_", "F", "I", "L", "E">>} |->
        CASE key = <<"T", "E", "M", "P", "O">> -> <<"1", "2", "0">>
          [] key = <<"S", "A", "M", "P", "L", "E", "_", "R", "A", "T", "E">>
               -> <<"4", "4", "1", "0", "0">>
          [] key = <<"M", "A", "S", "T", "E", "R", "_", "A", "M", "P", "L", "I", "T",
                     "U", "D", "E">> -> <<"0", ".", "7">>
          [] OTHER -> <<"o", "u", "t", "p", "u", "t", ".", "w", "a", "v">>]

NoLine == [read |-> FALSE, count |-> 0]

\* SongParser.__init__; current_track is the index of the track being filled,
\* 0 for None, and last remembers the line read last, the state before it and
\* the number of lines read
ParserInit ==
    [constructed |-> TRUE,
     global_settings |-> DefaultGlobalSettings,
     tracks |-> <<>>,
     current_track |-> 0,
     last |-> NoLine]

\* d[key] = val on a dict kept as a function
DictSet(d, key, val) ==
    [k \in DOMAIN d \cup {key} |-> IF k = key THEN val ELSE d[k]]

\* original_data followed by repeat_count further copies of it
RECURSIVE Extended(_, _, _)
Extended(data, original_data, repeat_count) ==
    IF repeat_count <= 0 THEN data
    ELSE Extended(data \o original_data, original_data, repeat_count - 1)

\* a faulty variant of RepeatData: the block is laid down repeat_count times
\* in all
RepeatDataInAll(data, repeat_count) ==
    IF repeat_count <= 0 THEN data ELSE Extended(data, data, repeat_count - 1)

\* original_data = list(data); for _ in range(repeat_count): data.extend(original_data)
RepeatData(data, repeat_count) == Extended(data, data, repeat_count)

\* the note-data branch of the loop body, line already stripped
ParseNoteLine(ps, line) ==
    LET parts == SplitBlanks(line)
        duration == PyFloat(parts[Len(parts)])
        note_parts == IF duration.status = "ok"
                      THEN SubSeq(parts, 1, Len(parts) - 1)
                      ELSE parts
        event == <<CollectNotes(note_parts, 1),
                   IF duration.status = "ok" THEN duration.val ELSE One>>
        c == ps.current_track
    IN  IF Len(parts) = 0 \/ Len(note_parts) = 0 THEN ps
        ELSE [ps EXCEPT !.tracks[c].data = Append(@, event)]

\* one pass of the loop of _parse_file over a line of the file
ParseLine(ps, raw_line) ==
    LET line == Strip(raw_line)
        c == ps.current_track
    IN  IF Len(line) = 0 \/ line[1] = "#" THEN ps
        ELSE IF StartsWith(line, <<"[", "T", "R", "A", "C", "K", ":">>)
        THEN [ps EXCEPT !.tracks = Append(@, [name |-> Strip(SliceToLast(line, 7)),
                                              settings |-> <<>>,
                                              data |-> <<>>]),
                        !.current_track = Len(ps.tracks) + 1]
        ELSE IF StartsWith(line, <<"[", "R", "E", "P", "E", "A", "T", ":">>)
        THEN IF c = 0 THEN ps
             ELSE LET repeat_count == PyIntSigned(Strip(SliceToLast(line, 8)))
                  IN  IF repeat_count.status # "ok" THEN ps
                      ELSE [ps EXCEPT !.tracks[c].data =
                                          RepeatData(@, repeat_count.val)]
        ELSE IF FirstIndex(line, ":") # 0
        THEN LET colon == FirstIndex(line, ":")
                 key == StrUpper(Strip(SubSeq(line, 1, colon - 1)))
                 val == Strip(SubSeq(line, colon + 1, Len(line)))
             IN  IF c # 0
                 THEN [ps EXCEPT !.tracks[c].settings = DictSet(@, key, val)]
                 ELSE [ps EXCEPT !.global_settings = DictSet(@, key, val)]
        ELSE IF c # 0 THEN ParseNoteLine(ps, line)
        ELSE ps

\* the same pass, with the line and the state before it remembered
ReadLine(ps, raw_line) ==
    [ParseLine(ps, raw_line) EXCEPT
        !.last = [read |-> TRUE, count |-> ps.last.count + 1,
                  line |-> raw_line, tracks |-> ps.tracks,
                  global_settings |-> ps.global_settings,
                  current_track |-> ps.current_track]]

\* the lines of a score file
SongLines ==
    {<<"[", "T", "R", "A", "C", "K", ":", " ", "a", "]">>,
     <<"[", "R", "E", "P", "E", "A", "T", ":", " ", "2", "]">>,
     <<" ", "[", "R", "E", "P", "E", "A", "T", ":", "1", " ", "]", " ">>,
     <<"[", "R", "E", "P", "E", "A", "T", ":", " ", "0", "]">>,
     <<"[", "R", "E", "P", "E", "A", "T", ":", " ", "x", "]">>,
     <<"[", "R", "E", "P", "E", "A", "T", ":", " ", "1", ".", "5", "]">>,
     <<"[", "R", "E", "P", "E", "A", "T", ":", "]">>,
     <<"c", "4">>,
     <<"A", "4", " ", "K", "I", "C", "K", " ", " ", "0", ".", "5">>,
     <<"r", "e", "s", "t", " ", "0">>,
     <<"#", " ", "x">>,
     <<"v", "o", "l", "u", "m", "e", " ", ":", " ", "0", ".", "3">>}

----------------------------------------------------------------------------
(* normalize_to_16bit                                                      *)

\* what the cast of a float to np.int16 gives when the truncated value v is
\* outside the type: C leaves it undefined, and a build wraps it modulo 2^16,
\* saturates it, or gives the smallest int16
Casts == {"wraps", "saturates", "smallest"}
CastOutOfRange(v, cast) ==
    CASE cast = "wraps" -> ((v + 32768) % 65536) - 32768
      [] cast = "saturates" -> IF v > 0 THEN 32767 ELSE -32768
      [] cast = "smallest" -> -32768

\* a faulty variant of ToInt16: scaled by 2^16 - 1
ToInt16Unsigned(x, cast) ==
    IF PyTrunc(RatMul(x, <<65535, 1>>)) \in -32768..32767
    THEN PyTrunc(RatMul(x, <<65535, 1>>))
    ELSE CastOutOfRange(PyTrunc(RatMul(x, <<65535, 1>>)), cast)

\* np.int16(x * 32767) for one sample: truncation toward zero
ToInt16(x, cast) ==
    IF PyTrunc(RatMul(x, <<32767, 1>>)) \in -32768..32767
    THEN PyTrunc(RatMul(x, <<32767, 1>>))
    ELSE CastOutOfRange(PyTrunc(RatMul(x, <<32767, 1>>)), cast)

\* normalize_to_16bit(waveform) on a build with the given cast
NormalizeTo16Bit(waveform, cast) ==
    [i \in 1..Len(waveform) |-> ToInt16(waveform[i], cast)]

----------------------------------------------------------------------------
(* SongParser._build_tracks                                                *)

\* settings.get(key, default)
SettingsGet(settings, key, default) ==
    IF key \in DOMAIN settings THEN settings[key] ELSE default

\* the try block over the global settings
BuildGlobals(ps) ==
    LET tempo == PyIntSigned(ps.global_settings[<<"T", "E", "M", "P", "O">>])
        sample_rate ==
            PyIntSigned(ps.global_settings[
                <<"S", "A", "M", "P", "L", "E", "_", "R", "A", "T", "E">>])
        master_amp ==
            PyFloat(ps.global_settings[
                <<"M", "A", "S", "T", "E", "R", "_", "A", "M", "P", "L", "I", "T", "U", "D",
                  "E">>])
    IN  [status |-> IF /\ tempo.status = "ok"
                       /\ sample_rate.status = "ok"
                       /\ master_amp.status = "ok"
                    THEN "ok" ELSE "ValueError",
         tempo |-> tempo.val,
         sample_rate |-> sample_rate.val,
         master_amplitude |-> master_amp.val,
         output_file |-> ps.global_settings[
             <<"O", "U", "T", "P", "U", "T", "_", "F", "I", "L", "E">>]]

\* the body of the per-track try block up to the player: the volume, the
\* instrument and the SongPlayer, or the exception raised on the way
TrackPlayer(f, globals, track) ==
    LET instrument_name ==
            SettingsGet(track.settings,
                        <<"I", "N", "S", "T", "R", "U", "M", "E", "N", "T">>,
                        <<"s", "i", "n", "e">>)
        volume == PyFloat(SettingsGet(track.settings,
                                      <<"V", "O", "L", "U", "M", "E">>,
                                      <<"0", ".", "5">>))
        time_sig ==
            SettingsGet(track.settings,
                        <<"T", "I", "M", "E", "_", "S", "I", "G", "N", "A", "T", "U", "R", "E">>,
                        <<"4", "/", "4">>)
        inst == CreateInstrument(f, instrument_name, <<>>, 0)
    IN  IF volume.status # "ok"
        THEN [status |-> volume.status, volume |-> Zero, player |-> NoPlayer]
        ELSE IF inst.status # "ok"
        THEN [status |-> inst.status, volume |-> Zero, player |-> NoPlayer]
        ELSE IF globals.tempo = 0
        THEN [status |-> "ZeroDivisionError", volume |-> Zero, player |-> NoPlayer]
        ELSE [status |-> "ok", volume |-> volume.val,
              player |-> SongPlayerInit(globals.tempo, inst.obj, time_sig,
                                        globals.sample_rate, <<440, 1>>)]

\* generated_tracks.append((wave, volume)), or the exception the rendering
\* raised
TrackResult(wave, volume) ==
    [status |-> wave.status, wave |-> wave.wave, volume |-> volume]

\* wave = player.generate_song_waveform(data, amplitude=1.0), made the player
\* and the volume of the track
RenderTrack(made, data, raws) ==
    IF made.status # "ok"
    THEN [status |-> made.status, wave |-> <<>>, volume |-> Zero]
    ELSE TrackResult(GenerateSongWaveform(made.player, data, One, raws), made.volume)

\* the per-track try block: the wave and its volume, or the exception
BuildTrack(f, globals, track, raws) ==
    RenderTrack(TrackPlayer(f, globals, track), track.data, raws)

\* the loop over self.tracks from track k on: what each track came to
RECURSIVE BuildLoop(_, _, _, _, _)
BuildLoop(f, globals, tracks, raws, k) ==
    IF k > Len(tracks) THEN <<>>
    ELSE <<BuildTrack(f, globals, tracks[k], raws[k])>>
             \o BuildLoop(f, globals, tracks, raws, k + 1)

\* generated_tracks: the (wave, volume) pairs of the tracks that did not raise
RECURSIVE GeneratedTracks(_, _)
GeneratedTracks(built, k) ==
    IF k > Len(built) THEN <<>>
    ELSE IF built[k].status = "ok"
    THEN <<<<built[k].wave, built[k].volume>>>> \o GeneratedTracks(built, k + 1)
    ELSE GeneratedTracks(built, k + 1)

NoBuild == [called |-> FALSE]

\* _build_tracks before it has done anything
Unbuilt(ps) ==
    [called |-> TRUE, status |-> "ok", stage |-> "settings", tracks |-> ps.tracks,
     built |-> <<>>, generated_tracks |-> <<>>, final_wave |-> <<>>,
     final_wave_16bit |-> <<>>, saved |-> FALSE]

\* normalize_to_16bit and save_wav, or the exception mix_tracks raised
SaveMix(ps, built, generated_tracks, final_wave, cast) ==
    IF final_wave.status # "ok"
    THEN [Unbuilt(ps) EXCEPT !.stage = "mixing", !.status = final_wave.status,
                             !.built = built, !.generated_tracks = generated_tracks]
    ELSE [Unbuilt(ps) EXCEPT !.stage = "saved", !.built = built,
                             !.generated_tracks = generated_tracks,
                             !.final_wave = final_wave.wave,
                             !.final_wave_16bit = NormalizeTo16Bit(final_wave.wave, cast),
                             !.saved = TRUE]

\* "if not generated_tracks: return", then the mixer
MixGenerated(ps, globals, built, generated_tracks, cast) ==
    IF Len(generated_tracks) = 0
    THEN [Unbuilt(ps) EXCEPT !.stage = "no_tracks", !.built = built]
    ELSE SaveMix(ps, built, generated_tracks,
                 MixTracks(MixerInit(globals.master_amplitude), generated_tracks), cast)

\* what follows the loop over self.tracks
MixBuilt(ps, globals, built, cast) ==
    MixGenerated(ps, globals, built, GeneratedTracks(built, 1), cast)

\* the loop over self.tracks and what follows it
BuildWith(ps, f, globals, raws, cast) ==
    IF globals.status # "ok" THEN Unbuilt(ps)
    ELSE MixBuilt(ps, globals, BuildLoop(f, globals, ps.tracks, raws, 1), cast)

\* SongParser._build_tracks; raws[k] is what the plugin returned for the
\* events of track k. The result records what each track came to, what the
\* mixer was handed and whether save_wav ran.
BuildTracks(ps, f, raws, cast) == BuildWith(ps, f, BuildGlobals(ps), raws, cast)

\* what the plugins may return for the tracks from track k on
RECURSIVE BuildRawChoices(_, _, _, _)
BuildRawChoices(f, globals, tracks, k) ==
    IF k > Len(tracks) THEN {<<>>}
    ELSE LET made == TrackPlayer(f, globals, tracks[k])
         IN  {<<r>> \o rest :
                 r \in IF made.status = "ok"
                       THEN RawChoices(made.player, tracks[k].data, 1)
                       ELSE {<<>>},
                 rest \in BuildRawChoices(f, globals, tracks, k + 1)}

\* the lines of a score file that set up tracks
BuildLines ==
    {<<"[", "T", "R", "A", "C", "K", ":", " ", "a", "]">>,
     <<"I", "N", "S", "T", "R", "U", "M", "E", "N", "T", ":", " ", "b", "a", "n", "j", "o">>,
     <<"i", "n", "s", "t", "r", "u", "m", "e", "n", "t", ":", "S", "q", "u", "a", "r", "e">>,
     <<"V", "O", "L", "U", "M", "E", ":", " ", "l", "o", "u", "d">>,
     <<"V", "O", "L", "U", "M", "E", ":", " ", "2">>,
     <<"T", "E", "M", "P", "O", ":", " ", "x">>,
     <<"c", "4">>,
     <<"r", "e", "s", "t", " ", "0">>}

\* the line that brings the sample rate down to a few samples per beat
SampleRateLine ==
    <<"S", "A", "M", "P", "L", "E", "_", "R", "A", "T", "E", ":", " ", "4">>

NoFactory == [constructed |-> FALSE]
NoParser == [constructed |-> FALSE]
NoThread == [pc |-> "not_started"]
NoAccess == [thread |-> "none"]

AppIdle ==
    /\ factory = NoFactory
    /\ created = <<>>
    /\ parser = NoParser
    /\ build = NoBuild
    /\ quantized = <<>>

SynthIdle ==
    /\ data_lock = "free"
    /\ g_oscillators = <<>>
    /\ audio_thread = NoThread
    /\ main_thread = NoThread
    /\ last_access = NoAccess

RestIdle == AppIdle /\ SynthIdle

ToolsIdle ==
    /\ envelope = NoEnvelope
    /\ instrument = NoInstrument
    /\ calls = <<>>
    /\ freq_calc = NoCalculator
    /\ freq_calls = <<>>

----------------------------------------------------------------------------
(* The mixer: a caller collects tracks and mixes them once.                *)

InitMixer ==
    /\ RestIdle
    /\ ma_arg \in MasterAmplitudes
    /\ master_amplitude = MixerInit(ma_arg)
    /\ tracks_with_volumes = <<>>
    /\ final_mix = NotCalled
    /\ PlayerIdle
    /\ ToolsIdle

\* the caller collects one more (waveform, volume) tuple
AppendTrack ==
    /\ final_mix = NotCalled
    /\ Len(tracks_with_volumes) < MaxTracks
    /\ \E wave \in Waves(MaxSamples - TotalSamples(tracks_with_volumes, 1)) :
       \E volume \in Volumes :
          tracks_with_volumes' = Append(tracks_with_volumes, <<wave, volume>>)
    /\ UNCHANGED <<restVars, ma_arg, master_amplitude, final_mix, playerVars, toolVars>>

\* mixer.mix_tracks(tracks_with_volumes)
CallMixTracks ==
    /\ final_mix = NotCalled
    /\ final_mix' = MixTracks(master_amplitude, tracks_with_volumes)
    /\ UNCHANGED <<restVars, ma_arg, master_amplitude, tracks_with_volumes, playerVars, toolVars>>

NextMixer == AppendTrack \/ CallMixTracks

SpecMixer == InitMixer /\ [][NextMixer]_vars

----------------------------------------------------------------------------
(* Construction of a SongPlayer from a time-signature string.              *)

InitCtor == MixerIdle /\ PlayerIdle /\ ToolsIdle /\ RestIdle

\* SongPlayer(tempo, instrument, time_signature, sample_rate)
ConstructPlayer ==
    /\ ~player.constructed
    /\ \E tempo \in Tempos, ts \in TimeSigStrings, sample_rate \in SampleRates,
          a4 \in ReferencePitches :
          /\ time_signature' = ts
          /\ player' = SongPlayerInit(tempo, Sine, ts, sample_rate, a4)
    /\ UNCHANGED <<restVars, mixerVars, toolVars, song_data, song_wave, note_call, note_wave>>

NextCtor == ConstructPlayer

SpecCtor == InitCtor /\ [][NextCtor]_vars

----------------------------------------------------------------------------
(* A constructed SongPlayer rendering single events.                       *)

Constructed(rates) ==
    /\ time_signature \in TimeSignatures
    /\ \E tempo \in Tempos, inst \in Instruments, sample_rate \in rates,
          a4 \in ReferencePitches :
          player = SongPlayerInit(tempo, inst, time_signature, sample_rate, a4)

InitNote ==
    /\ RestIdle
    /\ MixerIdle
    /\ ToolsIdle
    /\ Constructed(SampleRates)
    /\ song_data = <<>>
    /\ song_wave = NoSong
    /\ note_call = NoCall
    /\ note_wave = NoNote

\* player.get_note_waveform(note_list, duration_s, amplitude)
CallGetNoteWaveform ==
    /\ ~note_call.called
    /\ \E note_list \in NoteLists, duration_s \in Durations, amplitude \in Amplitudes :
       \E raw_wave \in RawWaves(player, note_list, duration_s) :
          /\ note_call' = [called |-> TRUE, note_list |-> note_list,
                           duration_s |-> duration_s, amplitude |-> amplitude,
                           raw_wave |-> raw_wave]
          /\ note_wave' = GetNoteWaveform(player, note_list, duration_s, amplitude,
                                          raw_wave)
    /\ UNCHANGED <<restVars, mixerVars, toolVars, time_signature, player, song_data, song_wave>>

NextNote == CallGetNoteWaveform

SpecNote == InitNote /\ [][NextNote]_vars

----------------------------------------------------------------------------
(* Direct calls of the two envelope functions.                             *)

InitEnvelope == MixerIdle /\ PlayerIdle /\ ToolsIdle /\ RestIdle

\* BaseInstrument(attack_s, decay_s, sustain_level)
\*     .apply_ads_envelope(waveform, duration_s, sample_rate)
CallApplyAdsEnvelope ==
    /\ ~envelope.called
    /\ \E attack_s \in AttackTimes, decay_s \in DecayTimes,
          sustain_level \in SustainLevels, sample_rate \in SampleRates,
          waveform \in EnvWaves :
          envelope' =
              [called |-> TRUE, method |-> "apply_ads_envelope",
               attack_s |-> attack_s, decay_s |-> decay_s,
               sustain_level |-> sustain_level, sample_rate |-> sample_rate,
               num_samples |-> Len(waveform), waveform |-> waveform,
               segments |-> AdsSegments(attack_s, decay_s, Len(waveform), sample_rate),
               out |-> ApplyAdsEnvelope(
                           Instrument("Custom", attack_s, decay_s, sustain_level),
                           waveform, sample_rate)]
    /\ UNCHANGED <<restVars, mixerVars, playerVars, instrument, calls, freq_calc, freq_calls>>

\* Drums()._create_envelope(attack_s, decay_s, sustain_level, num_samples, sample_rate)
CallCreateEnvelope ==
    /\ ~envelope.called
    /\ \E attack_s \in AttackTimes, decay_s \in DecayTimes,
          sustain_level \in SustainLevels, sample_rate \in SampleRates,
          num_samples \in 0..MaxEnvLen :
          envelope' =
              [called |-> TRUE, method |-> "_create_envelope",
               attack_s |-> attack_s, decay_s |-> decay_s,
               sustain_level |-> sustain_level, sample_rate |-> sample_rate,
               num_samples |-> num_samples, waveform |-> <<>>,
               segments |-> DrumSegments(attack_s, decay_s, num_samples, sample_rate),
               out |-> CreateEnvelope(attack_s, decay_s, sustain_level, num_samples,
                                      sample_rate)]
    /\ UNCHANGED <<restVars, mixerVars, playerVars, instrument, calls, freq_calc, freq_calls>>

NextEnvelope == CallApplyAdsEnvelope \/ CallCreateEnvelope

SpecEnvelope == InitEnvelope /\ [][NextEnvelope]_vars

----------------------------------------------------------------------------
(* An instrument plugin called directly and through AudioMixer.            *)

InitInstrument ==
    /\ RestIdle
    /\ MixerIdle
    /\ PlayerIdle
    /\ envelope = NoEnvelope
    /\ freq_calc = NoCalculator
    /\ freq_calls = <<>>
    /\ instrument \in {[constructed |-> TRUE, obj |-> inst, instance |-> 1] :
                           inst \in AllInstruments}
    /\ calls = <<>>

\* instrument.get_waveform(frequencies, duration_s, sample_rate, amplitude), or
\* the same through AudioMixer(sample_rate).get_chord_waveform
CallGetWaveform ==
    /\ calls = <<>>
    /\ \E method \in Methods, frequencies \in FrequencyLists(instrument.obj),
          duration_s \in InstDurations, sample_rate \in InstSampleRates,
          amplitude \in InstAmplitudes :
       \E det \in DetChoices(instrument.obj, frequencies,
                              NumSamples(sample_rate, duration_s)),
          noise \in NoiseChoices(instrument.obj, frequencies,
                                 NumSamples(sample_rate, duration_s), 1) :
          calls' = <<GetWaveformCall(instrument.obj, method, frequencies, duration_s,
                                     sample_rate, amplitude, det, noise)>>
    /\ UNCHANGED <<restVars, mixerVars, playerVars, envelope, instrument, freq_calc, freq_calls>>

\* the caller repeats its last call with identical arguments, on the same
\* instance or on a freshly constructed one of the same variant
RepeatGetWaveform ==
    /\ Len(calls) >= 1
    /\ Len(calls) < MaxCalls
    /\ \E fresh \in BOOLEAN :
          LET inst == IF fresh THEN Construct(instrument.obj.name) ELSE instrument.obj
              c == calls[Len(calls)]
              num_samples == NumSamples(c.sample_rate, c.duration_s)
          IN  /\ instrument' =
                    IF fresh
                    THEN [constructed |-> TRUE, obj |-> inst,
                          instance |-> instrument.instance + 1]
                    ELSE instrument
              /\ \E det \in {d \in DetChoices(inst, c.frequencies, num_samples) :
                                 Consistent(d, inst, c.frequencies, c.duration_s,
                                            c.sample_rate, calls)},
                    noise \in NoiseChoices(inst, c.frequencies, num_samples, 1) :
                    calls' = Append(calls,
                                    GetWaveformCall(inst, c.method, c.frequencies,
                                                    c.duration_s, c.sample_rate,
                                                    c.amplitude, det, noise))
    /\ UNCHANGED <<restVars, mixerVars, playerVars, envelope, freq_calc, freq_calls>>

NextInstrument == CallGetWaveform \/ RepeatGetWaveform

SpecInstrument == InitInstrument /\ [][NextInstrument]_vars

----------------------------------------------------------------------------
(* Drums._generate_wave called directly on drum chords.                    *)

InitDrums ==
    /\ RestIdle
    /\ MixerIdle
    /\ PlayerIdle
    /\ envelope = NoEnvelope
    /\ freq_calc = NoCalculator
    /\ freq_calls = <<>>
    /\ instrument = [constructed |-> TRUE, obj |-> Drums, instance |-> 1]
    /\ calls = <<>>

\* drums._generate_wave(t, frequencies, sample_rate), t the time array of
\* duration_s at sample_rate
CallDrumsGenerateWave ==
    /\ calls = <<>>
    /\ \E frequencies \in DrumChords, duration_s \in DrumDurations,
          sample_rate \in InstSampleRates :
          LET num_samples == NumSamples(sample_rate, duration_s)
          IN  \E det \in DetChoices(Drums, frequencies, num_samples),
                 noise \in NoiseChoices(Drums, frequencies, num_samples, 1) :
                 calls' = <<[method |-> "_generate_wave",
                             frequencies |-> frequencies,
                             num_samples |-> num_samples,
                             sample_rate |-> sample_rate,
                             det |-> det, noise |-> noise,
                             triggered |-> [k \in 1..Len(frequencies) |->
                                               Dispatch(frequencies[k])],
                             raw |-> DrumsGenerateWave(frequencies, num_samples,
                                                       sample_rate, det, noise)]>>
    /\ UNCHANGED <<restVars, mixerVars, playerVars, envelope, instrument, freq_calc, freq_calls>>

NextDrums == CallDrumsGenerateWave

SpecDrums == InitDrums /\ [][NextDrums]_vars

----------------------------------------------------------------------------
(* NoteFrequencies: a calculator is built and asked for frequencies.       *)

\* calc = NoteFrequencies(a4)
InitCalculator ==
    /\ RestIdle
    /\ MixerIdle
    /\ PlayerIdle
    /\ envelope = NoEnvelope
    /\ instrument = NoInstrument
    /\ calls = <<>>
    /\ \E a4 \in CalculatorPitches : freq_calc = [constructed |-> TRUE, a4 |-> a4]
    /\ freq_calls = <<>>

\* calc.get_frequency(note_name)
GetFrequencyOf(note_name) ==
    /\ freq_calls' = Append(freq_calls,
                            [note_name |-> note_name,
                             result |-> GetFrequency(freq_calc.a4, note_name)])
    /\ UNCHANGED <<restVars, mixerVars, playerVars, envelope, instrument, calls, freq_calc>>

\* one call on any string
CallGetFrequency ==
    /\ freq_calls = <<>>
    /\ \E note_name \in NameStrings : GetFrequencyOf(note_name)

NextNames == CallGetFrequency

SpecNames == InitCalculator /\ [][NextNames]_vars

\* a first call on a letter, an optional accidental and a digit
LookUp ==
    /\ freq_calls = <<>>
    /\ \E note_name \in PitchNames : GetFrequencyOf(note_name)

\* a second call on the same calculator
LookUpAnother ==
    /\ Len(freq_calls) = 1
    /\ \E note_name \in PitchNames : GetFrequencyOf(note_name)

NextPitch == LookUp \/ LookUpAnother

SpecPitch == InitCalculator /\ [][NextPitch]_vars

----------------------------------------------------------------------------
(* A constructed SongPlayer rendering single events long enough to fade.   *)

InitFade ==
    /\ RestIdle
    /\ MixerIdle
    /\ ToolsIdle
    /\ Constructed(FadeSampleRates)
    /\ song_data = <<>>
    /\ song_wave = NoSong
    /\ note_call = NoCall
    /\ note_wave = NoNote

\* player.get_note_waveform(note_list, duration_s, amplitude) on a long event
CallGetNoteWaveformLong ==
    /\ ~note_call.called
    /\ \E note_list \in NoteLists, duration_s \in FadeDurations, amplitude \in Amplitudes :
       \E raw_wave \in LongRawWaves(player, note_list, duration_s) :
          /\ note_call' = [called |-> TRUE, note_list |-> note_list,
                           duration_s |-> duration_s, amplitude |-> amplitude,
                           raw_wave |-> raw_wave]
          /\ note_wave' = GetNoteWaveform(player, note_list, duration_s, amplitude,
                                          raw_wave)
    /\ UNCHANGED <<restVars, mixerVars, toolVars, time_signature, player, song_data, song_wave>>

NextFade == CallGetNoteWaveformLong

SpecFade == InitFade /\ [][NextFade]_vars

----------------------------------------------------------------------------
(* A constructed SongPlayer rendering a score.                             *)

InitSong ==
    /\ RestIdle
    /\ MixerIdle
    /\ ToolsIdle
    /\ Constructed(SongSampleRates)
    /\ song_data = <<>>
    /\ song_wave = NoSong
    /\ note_call = NoCall
    /\ note_wave = NoNote

\* the caller's score gains one (note_list, num_beats) event
AppendEvent ==
    /\ song_wave = NoSong
    /\ Len(song_data) < MaxEvents
    /\ \E note_list \in SongNoteLists, num_beats \in NumBeats :
          song_data' = Append(song_data, <<note_list, num_beats>>)
    /\ UNCHANGED <<restVars, mixerVars, toolVars, time_signature, player, song_wave, note_call,
                   note_wave>>

\* player.generate_song_waveform(song_data, amplitude)
CallGenerateSongWaveform ==
    /\ song_wave = NoSong
    /\ \E amplitude \in SongAmplitudes :
       \E raws \in RawChoices(player, song_data, 1) :
          song_wave' = [GenerateSongWaveform(player, song_data, amplitude, raws)
                            EXCEPT !.raws = raws, !.amplitude = amplitude]
    /\ UNCHANGED <<restVars, mixerVars, toolVars, time_signature, player, song_data, note_call,
                   note_wave>>

NextSong == AppendEvent \/ CallGenerateSongWaveform

SpecSong == InitSong /\ [][NextSong]_vars

----------------------------------------------------------------------------
(* A factory is built and asked for instruments.                           *)

\* factory = InstrumentFactory()
InitFactory ==
    /\ MixerIdle
    /\ PlayerIdle
    /\ ToolsIdle
    /\ SynthIdle
    /\ \E importable \in ImportableSets : factory = FactoryInit(importable)
    /\ created = <<>>
    /\ parser = NoParser
    /\ build = NoBuild
    /\ quantized = <<>>

\* factory.create_instrument(name, **adsr_params)
CallCreateInstrument ==
    /\ Len(created) < MaxCreated
    /\ \E name \in FactoryNames, adsr_params \in AdsrParams :
          created' = Append(created,
                            CreateInstrument(factory, name, adsr_params,
                                             Len(created) + 1))
    /\ UNCHANGED <<mixerVars, playerVars, toolVars, synthVars, factory, parser, build, quantized>>

NextFactory == CallCreateInstrument

SpecFactory == InitFactory /\ [][NextFactory]_vars

----------------------------------------------------------------------------
(* A parser is built and reads the lines of a score file.                  *)

\* parser = SongParser(input_file), its factory left aside
InitParse ==
    /\ MixerIdle
    /\ PlayerIdle
    /\ ToolsIdle
    /\ SynthIdle
    /\ factory = NoFactory
    /\ created = <<>>
    /\ parser = ParserInit
    /\ build = NoBuild
    /\ quantized = <<>>

\* the loop of _parse_file reads the next line of the file
ReadNextLine ==
    /\ parser.last.count < MaxLines
    /\ \E raw_line \in SongLines : parser' = ReadLine(parser, raw_line)
    /\ UNCHANGED <<mixerVars, playerVars, toolVars, synthVars, factory, created, build, quantized>>

NextParse == ReadNextLine

SpecParse == InitParse /\ [][NextParse]_vars

----------------------------------------------------------------------------
(* SongParser.build_song: a score file is read and built.                  *)

\* parser = SongParser(input_file), the first line of the file read
InitBuild ==
    /\ MixerIdle
    /\ PlayerIdle
    /\ ToolsIdle
    /\ SynthIdle
    /\ factory = FactoryInit(PluginModules)
    /\ created = <<>>
    /\ parser = ReadLine(ParserInit, SampleRateLine)
    /\ build = NoBuild
    /\ quantized = <<>>

\* the loop of _parse_file reads the next line of the file
ReadBuildLine ==
    /\ ~build.called
    /\ parser.last.count < MaxLines
    /\ \E raw_line \in BuildLines : parser' = ReadLine(parser, raw_line)
    /\ UNCHANGED <<mixerVars, playerVars, toolVars, synthVars, factory, created, build, quantized>>

\* self._build_tracks() at the end of the file
CallBuildTracks ==
    /\ ~build.called
    /\ \E raws \in BuildRawChoices(factory, BuildGlobals(parser), parser.tracks, 1),
          cast \in Casts :
          build' = BuildTracks(parser, factory, raws, cast)
    /\ UNCHANGED <<mixerVars, playerVars, toolVars, synthVars, factory, created, parser, quantized>>

NextBuild == ReadBuildLine \/ CallBuildTracks

SpecBuild == InitBuild /\ [][NextBuild]_vars

----------------------------------------------------------------------------
(* A SongPlayer sequencing a Drums instrument.                             *)

\* the reference pitches given to SongPlayer, and the drum events of a score
DrumPlayerPitches == {<<440, 1>>, <<432, 1>>, <<880, 1>>}
DrumNoteLists ==
    {<<<<"C", "4">>>>, <<<<"D", "4">>>>, <<<<"F", "4">>>>, <<<<"G", "4">>>>,
     <<<<"C", "4">>, <<"G", "4">>>>}
DrumNoteDurations == {<<1, 20>>, <<1, 10>>}

\* player = SongPlayer(tempo, Drums(), time_signature, sample_rate, a4)
InitDrumPlayer ==
    /\ RestIdle
    /\ MixerIdle
    /\ ToolsIdle
    /\ time_signature \in TimeSignatures
    /\ \E tempo \in Tempos, a4 \in DrumPlayerPitches :
          player = SongPlayerInit(tempo, Drums, time_signature, 20, a4)
    /\ song_data = <<>>
    /\ song_wave = NoSong
    /\ note_call = NoCall
    /\ note_wave = NoNote

\* player.get_note_waveform(note_list, duration_s, 1.0): the names are
\* resolved on the player's calculator, the Drums instance renders the
\* frequencies (the call is kept in calls) and the fade is laid on
CallDrumNote ==
    /\ ~note_call.called
    /\ \E note_list \in DrumNoteLists, duration_s \in DrumNoteDurations :
       \E frequencies \in {ResolveNotes(player.a4, note_list, 1)} :
       \E det \in DetChoices(Drums, frequencies, NumSamples(20, duration_s)),
          noise \in NoiseChoices(Drums, frequencies, NumSamples(20, duration_s), 1) :
       \E call \in {GetWaveformCall(Drums, "get_chord_waveform", frequencies,
                                     duration_s, 20, One, det, noise)} :
          /\ note_call' = [called |-> TRUE, note_list |-> note_list,
                           duration_s |-> duration_s, amplitude |-> One,
                           raw_wave |-> call.raw]
          /\ calls' = <<call>>
          /\ note_wave' = GetNoteWaveform(player, note_list, duration_s, One, call.raw)
    /\ UNCHANGED <<restVars, mixerVars, time_signature, player, song_data, song_wave,
                   envelope, instrument, freq_calc, freq_calls>>

NextDrumPlayer == CallDrumNote

SpecDrumPlayer == InitDrumPlayer /\ [][NextDrumPlayer]_vars

----------------------------------------------------------------------------
(* main.py: a melody is rendered and saved, then mixed and saved.          *)

\* piano_sound, synth_sound with the envelope main.py gives it, and a
\* sawtooth whose caller asks for a sustain level above 1
PianoSound == Construct("Piano")
SynthSound ==
    ConstructWith("Sawtooth", [attack_s |-> <<1, 20>>, decay_s |-> <<1, 10>>,
                               sustain_level |-> <<7, 10>>])
LoudSound == ConstructWith("Sawtooth", [sustain_level |-> <<3, 2>>])

\* short scores in place of twinkle_twinkle_melody
ScriptScores ==
    {<<<<<<<<"A", "4">>>>, One>>>>,
     <<<<<<<<"C", "4">>, <<"E", "4">>>>, One>>, <<<<>>, <<1, 2>>>>>>,
     <<<<<<<<"G", "4">>>>, <<1, 2>>>>, <<<<<<"A", "4">>>>, One>>>>}
ScriptAmplitudes == {One, <<-1, 1>>, <<3, 2>>}
ScriptVolumes == {<<7, 10>>, <<2, 1>>}
ScriptMasterAmplitudes == {<<4, 5>>, <<3, 2>>}

\* steps 1 to 5: the score, the instruments and the player
InitScript ==
    /\ RestIdle
    /\ MixerIdle
    /\ ToolsIdle
    /\ time_signature = <<"4", "/", "4">>
    /\ \E tempo \in Tempos, inst \in {PianoSound, SynthSound, LoudSound} :
          player = SongPlayerInit(tempo, inst, time_signature, 4, <<440, 1>>)
    /\ song_data \in ScriptScores
    /\ song_wave = NoSong
    /\ note_call = NoCall
    /\ note_wave = NoNote

\* one normalize_to_16bit call as the script's record of it
Quantized(source, waveform, cast) ==
    [source |-> source, waveform |-> waveform, cast |-> cast,
     waveform_int |-> NormalizeTo16Bit(waveform, cast)]

\* steps 6 and 7: melody_wave = player.generate_song_waveform(score, amplitude),
\* melody_wave_int = normalize_to_16bit(melody_wave), save_wav
RenderAndSave ==
    /\ song_wave = NoSong
    /\ \E amplitude \in ScriptAmplitudes, cast \in Casts :
       \E raws \in RawChoices(player, song_data, 1) :
       \E melody_wave \in {GenerateSongWaveform(player, song_data, amplitude, raws)} :
          /\ song_wave' = [melody_wave EXCEPT !.raws = raws, !.amplitude = amplitude]
          /\ quantized' = IF melody_wave.status = "ok"
                          THEN Append(quantized,
                                      Quantized("track", melody_wave.wave, cast))
                          ELSE quantized
    /\ UNCHANGED <<mixerVars, toolVars, synthVars, factory, created, parser, build,
                   time_signature, player, song_data, note_call, note_wave>>

\* steps 10 and 11: final_song_wave = MultiTrackMixer(master_amplitude)
\*     .mix_tracks([(melody_wave, volume)]),
\* final_song_int = normalize_to_16bit(final_song_wave), save_wav
MixAndSave ==
    /\ song_wave.status = "ok"
    /\ final_mix = NotCalled
    /\ \E master \in ScriptMasterAmplitudes, volume \in ScriptVolumes, cast \in Casts :
       \E final_song_wave \in {MixTracks(MixerInit(master),
                                          <<<<song_wave.wave, volume>>>>)} :
          /\ ma_arg' = master
          /\ master_amplitude' = MixerInit(master)
          /\ tracks_with_volumes' = <<<<song_wave.wave, volume>>>>
          /\ final_mix' = final_song_wave
          /\ quantized' = IF final_song_wave.status = "ok"
                          THEN Append(quantized,
                                      Quantized("mix", final_song_wave.wave, cast))
                          ELSE quantized
    /\ UNCHANGED <<playerVars, toolVars, synthVars, factory, created, parser, build>>

NextScript == RenderAndSave \/ MixAndSave

SpecScript == InitScript /\ [][NextScript]_vars

----------------------------------------------------------------------------
(* live_synth.py: the audio callback thread and the main video loop share  *)
(* g_oscillators under data_lock. Each thread advances one step at a time: *)
(* taking the lock, one access of the shared list, releasing the lock.     *)

SAMPLE_RATE == 44100
MIN_FREQ == 220
MAX_HANDS == 2

\* g_oscillators as the module creates it
OscillatorsInit == [i \in 1..MAX_HANDS |-> [freq |-> MIN_FREQ, amp |-> Zero, phase |-> 0]]

\* the buffer sizes the audio library asks for, and what the hand tracking
\* may find in a frame: no hand, one hand, two hands with one barely raised
Frames == {22050, 44100}
HandStates ==
    {<<>>,
     <<[freq |-> 440, amp |-> <<2, 5>>]>>,
     <<[freq |-> 330, amp |-> <<1, 1000>>], [freq |-> 880, amp |-> <<1, 5>>]>>}

\* the phase the callback writes for oscillator i of its snapshot: advanced
\* by the buffer when amp > 0.001, reset otherwise
NewPhase(current_oscillators, i, frames) ==
    IF RatLt(<<1, 1000>>, current_oscillators[i].amp)
    THEN (current_oscillators[i].phase + frames) % SAMPLE_RATE
    ELSE 0

\* a faulty variant of WritePhase: the snapshot's entry is written back with
\* the new phase
WritePhaseFromCopy(oscillators, current_oscillators, i, new_phase) ==
    [oscillators EXCEPT ![i] = [current_oscillators[i] EXCEPT !.phase = new_phase]]

\* g_oscillators[i]['phase'] = new_phase
WritePhase(oscillators, current_oscillators, i, new_phase) ==
    [oscillators EXCEPT ![i].phase = new_phase]

\* the body of the main loop's update for oscillator i
WriteHand(oscillators, current_hand_states, i) ==
    IF i <= Len(current_hand_states)
    THEN [oscillators EXCEPT ![i].freq = current_hand_states[i].freq,
                             ![i].amp = current_hand_states[i].amp]
    ELSE [oscillators EXCEPT ![i].amp = Zero]

\* the record of one access of g_oscillators: who, how, and who held the lock
Access(thread, op) == [thread |-> thread, op |-> op, lock |-> data_lock]

AudioWaiting == [pc |-> "waiting", i |-> 0, frames |-> 0, current_oscillators |-> <<>>]
MainDetecting == [pc |-> "detect", i |-> 0, current_hand_states |-> <<>>]

\* after stream.start(): the callback waits for its first call and the main
\* loop for its first frame
InitSynth ==
    /\ MixerIdle
    /\ PlayerIdle
    /\ ToolsIdle
    /\ AppIdle
    /\ data_lock = "free"
    /\ g_oscillators = OscillatorsInit
    /\ audio_thread = AudioWaiting
    /\ main_thread = MainDetecting
    /\ last_access = NoAccess

\* the audio library calls audio_callback(outdata, frames, time, status)
AudioCalled ==
    /\ audio_thread.pc = "waiting"
    /\ \E frames \in Frames :
          audio_thread' = [AudioWaiting EXCEPT !.pc = "lock_copy", !.frames = frames]
    /\ UNCHANGED <<mixerVars, playerVars, toolVars, appVars, data_lock, g_oscillators,
                   main_thread, last_access>>

\* "with data_lock:" of the callback is entered, for the copy or for a phase
AudioAcquire ==
    /\ audio_thread.pc \in {"lock_copy", "lock_phase"}
    /\ data_lock = "free"
    /\ data_lock' = "audio"
    /\ audio_thread' = [audio_thread EXCEPT
                            !.pc = IF @ = "lock_copy" THEN "copy" ELSE "write_phase"]
    /\ UNCHANGED <<mixerVars, playerVars, toolVars, appVars, g_oscillators, main_thread,
                   last_access>>

\* current_oscillators.append(osc.copy()) for every oscillator
AudioCopy ==
    /\ audio_thread.pc = "copy"
    /\ audio_thread' = [audio_thread EXCEPT !.pc = "unlock_copy",
                                            !.current_oscillators = g_oscillators]
    /\ last_access' = Access("audio", "read")
    /\ UNCHANGED <<mixerVars, playerVars, toolVars, appVars, data_lock, g_oscillators,
                   main_thread>>

\* g_oscillators[i]['phase'] = new_phase, or = 0.0
AudioWritePhase ==
    /\ audio_thread.pc = "write_phase"
    /\ g_oscillators' =
          WritePhase(g_oscillators, audio_thread.current_oscillators, audio_thread.i,
                     NewPhase(audio_thread.current_oscillators, audio_thread.i,
                              audio_thread.frames))
    /\ audio_thread' = [audio_thread EXCEPT !.pc = "unlock_phase"]
    /\ last_access' = Access("audio", "write")
    /\ UNCHANGED <<mixerVars, playerVars, toolVars, appVars, data_lock, main_thread>>

\* a "with data_lock:" block of the callback is left; after the last
\* oscillator the callback returns
AudioRelease ==
    /\ audio_thread.pc \in {"unlock_copy", "unlock_phase"}
    /\ data_lock' = "free"
    /\ audio_thread' =
          IF audio_thread.pc = "unlock_copy"
          THEN [audio_thread EXCEPT !.pc = "lock_phase", !.i = 1]
          ELSE IF audio_thread.i < MAX_HANDS
          THEN [audio_thread EXCEPT !.pc = "lock_phase", !.i = @ + 1]
          ELSE AudioWaiting
    /\ UNCHANGED <<mixerVars, playerVars, toolVars, appVars, g_oscillators, main_thread,
                   last_access>>

\* the main loop reads a frame and fills current_hand_states
MainDetect ==
    /\ main_thread.pc = "detect"
    /\ \E current_hand_states \in HandStates :
          main_thread' = [pc |-> "lock_update", i |-> 0,
                          current_hand_states |-> current_hand_states]
    /\ UNCHANGED <<mixerVars, playerVars, toolVars, appVars, data_lock, g_oscillators,
                   audio_thread, last_access>>

\* "with data_lock:" of the main loop is entered, for the update or the display
MainAcquire ==
    /\ main_thread.pc \in {"lock_update", "lock_display"}
    /\ data_lock = "free"
    /\ data_lock' = "main"
    /\ main_thread' = [main_thread EXCEPT
                           !.pc = IF @ = "lock_update" THEN "update" ELSE "display",
                           !.i = 1]
    /\ UNCHANGED <<mixerVars, playerVars, toolVars, appVars, g_oscillators, audio_thread,
                   last_access>>

\* one pass of "for i in range(MAX_HANDS)" of the update
MainUpdate ==
    /\ main_thread.pc = "update"
    /\ g_oscillators' = WriteHand(g_oscillators, main_thread.current_hand_states,
                                  main_thread.i)
    /\ main_thread' = IF main_thread.i < MAX_HANDS
                      THEN [main_thread EXCEPT !.i = @ + 1]
                      ELSE [main_thread EXCEPT !.pc = "unlock_update"]
    /\ last_access' = Access("main", "write")
    /\ UNCHANGED <<mixerVars, playerVars, toolVars, appVars, data_lock, audio_thread>>

\* osc_display_list = [osc.copy() for osc in g_oscillators]
MainDisplay ==
    /\ main_thread.pc = "display"
    /\ main_thread' = [main_thread EXCEPT !.pc = "unlock_display"]
    /\ last_access' = Access("main", "read")
    /\ UNCHANGED <<mixerVars, playerVars, toolVars, appVars, data_lock, g_oscillators,
                   audio_thread>>

\* a "with data_lock:" block of the main loop is left; after the display the
\* loop starts over
MainRelease ==
    /\ main_thread.pc \in {"unlock_update", "unlock_display"}
    /\ data_lock' = "free"
    /\ main_thread' = IF main_thread.pc = "unlock_update"
                      THEN [main_thread EXCEPT !.pc = "lock_display"]
                      ELSE MainDetecting
    /\ UNCHANGED <<mixerVars, playerVars, toolVars, appVars, g_oscillators, audio_thread,
                   last_access>>

NextSynth ==
    \/ AudioCalled \/ AudioAcquire \/ AudioCopy \/ AudioWritePhase \/ AudioRelease
    \/ MainDetect \/ MainAcquire \/ MainUpdate \/ MainDisplay \/ MainRelease

SpecSynth == InitSynth /\ [][NextSynth]_vars

----------------------------------------------------------------------------
(* A player is re-timed after construction, as main.py and music.py do.    *)

\* player.tempo = tempo; player.beat_duration_s = 60.0 / player.tempo
\* the second assignment creates an attribute that __init__ never set
Retime(p, tempo) ==
    [f \in DOMAIN p \cup {"beat_duration_s"} |->
        IF f = "tempo" THEN tempo
        ELSE IF f = "beat_duration_s" THEN Rat(60, tempo)
        ELSE p[f]]

\* the caller slows the player down before the next render
RetimePlayer ==
    /\ song_wave = NoSong
    /\ "beat_duration_s" \notin DOMAIN player
    /\ \E tempo \in RetimeTempos : player' = Retime(player, tempo)
    /\ UNCHANGED <<restVars, mixerVars, toolVars, time_signature, song_data, song_wave,
                   note_call, note_wave>>

NextRetime == AppendEvent \/ RetimePlayer \/ CallGenerateSongWaveform

SpecRetime == InitSong /\ [][NextRetime]_vars

----------------------------------------------------------------------------
(* Claims about MultiTrackMixer, checked under SpecMixer                   *)

MixReturned == final_mix.status = "ok"
MixCalled == final_mix.status # "not_called"
Peak(w) == PeakFrom(w, 1, Zero)
\* what track k adds to index i of the sum: its scaled sample, or zero past its end
Contribution(tracks, k, i) ==
    IF i <= Len(tracks[k][1])
    THEN RatMul(tracks[k][1][i], ClampVolume(tracks[k][2]))
    ELSE Zero

RECURSIVE SumOfContributions(_, _, _)
SumOfContributions(tracks, k, i) ==
    IF k > Len(tracks) THEN Zero
    ELSE RatAdd(Contribution(tracks, k, i), SumOfContributions(tracks, k + 1, i))

\* the volume-scaled sum of the tracks, index by index
NaiveSum(tracks) ==
    [i \in 1..MaxLen(tracks) |-> SumOfContributions(tracks, 1, i)]

Overflowed ==
    /\ Len(tracks_with_volumes) > 0
    /\ RatLt(One, Peak(NaiveSum(tracks_with_volumes)))

\* C1: when the volume-scaled sum of a non-empty track list peaks above 1.0,
\* the returned buffer peaks at exactly master_amplitude, every output sample
\* is (summed sample / peak) * master_amplitude, and any two output samples
\* are in the ratio of their summed samples.
C1_OverflowLaw ==
    (MixReturned /\ Overflowed) =>
        LET summed == NaiveSum(tracks_with_volumes)
            peak == Peak(summed)
            out == final_mix.wave
        IN  /\ Len(out) = Len(summed)
            /\ Peak(out) = master_amplitude
            /\ \A i \in 1..Len(out) :
                  out[i] = RatMul(RatDiv(summed[i], peak), master_amplitude)
            /\ \A i, j \in 1..Len(out) :
                  RatMul(out[i], summed[j]) = RatMul(out[j], summed[i])

C1_Witness ==
    /\ MixReturned
    /\ Overflowed
    /\ Len(tracks_with_volumes) = 2
    /\ master_amplitude = <<4, 5>>
    /\ \E i, j \in 1..Len(final_mix.wave) :
          /\ final_mix.wave[i] = <<4, 5>>
          /\ final_mix.wave[j] # Zero
          /\ RatAbs(final_mix.wave[j]) # <<4, 5>>

Clamp01(x) == IF RatLt(x, Zero) THEN Zero ELSE IF RatLt(One, x) THEN One ELSE x

\* C2: whatever the tracks, the volumes and the constructor's master_amplitude
\* argument, every returned sample has absolute value at most that argument
\* clamped to [0,1], hence lies in [-1.0, 1.0].
C2_OutputBounded ==
    MixReturned =>
        \A i \in 1..Len(final_mix.wave) :
            /\ RatLe(RatAbs(final_mix.wave[i]), Clamp01(ma_arg))
            /\ RatLe(RatAbs(final_mix.wave[i]), One)

C2_Witness ==
    /\ MixReturned
    /\ RatLt(One, ma_arg)
    /\ \E k \in 1..Len(tracks_with_volumes) : tracks_with_volumes[k][2] = <<2, 1>>
    /\ \E i \in 1..Len(final_mix.wave) : RatAbs(final_mix.wave[i]) = One
    /\ \E i \in 1..Len(final_mix.wave) :
          RatLt(Zero, RatAbs(final_mix.wave[i])) /\ RatLt(RatAbs(final_mix.wave[i]), One)

SingleUnitTrack ==
    /\ Len(tracks_with_volumes) = 1
    /\ tracks_with_volumes[1][2] = One
    /\ ma_arg = One
    /\ Len(tracks_with_volumes[1][1]) > 0
    /\ RatLe(Peak(tracks_with_volumes[1][1]), One)

\* C3: a single track that has a peak (at least one sample) of at most 1.0,
\* mixed at volume 1.0 on a mixer built with master_amplitude 1.0, is returned
\* unchanged, sample for sample and in length.
C3_Identity ==
    (MixCalled /\ SingleUnitTrack) =>
        final_mix = Returned(tracks_with_volumes[1][1])

C3_Witness ==
    /\ MixReturned
    /\ SingleUnitTrack
    /\ Len(final_mix.wave) = 3
    /\ final_mix.wave[1] = <<1, 2>>
    /\ final_mix.wave[2] = Zero

\* C4: for every non-empty track list, zero-length waveforms included,
\* mix_tracks returns without error a buffer of the maximum input length, in
\* which every track contributes its scaled samples from offset 0 and zero
\* past its own length.
C4_AnyLengthsMix ==
    (MixCalled /\ Len(tracks_with_volumes) > 0) =>
        /\ MixReturned
        /\ Len(final_mix.wave) = MaxLen(tracks_with_volumes)
        /\ \A i \in 1..MaxLen(tracks_with_volumes) :
              SummedTracks(tracks_with_volumes)[i]
                  = NaiveSum(tracks_with_volumes)[i]

\* the part of C4 the code does satisfy: some track has at least one sample
C4_HoldsWithASample ==
    (MixCalled /\ Len(tracks_with_volumes) > 0 /\ MaxLen(tracks_with_volumes) > 0) =>
        /\ MixReturned
        /\ Len(final_mix.wave) = MaxLen(tracks_with_volumes)
        /\ \A i \in 1..MaxLen(tracks_with_volumes) :
              SummedTracks(tracks_with_volumes)[i]
                  = NaiveSum(tracks_with_volumes)[i]

\* the track list with every track of negative volume replaced by silence of
\* the same length at volume 1.0
Silenced(tracks) ==
    [k \in 1..Len(tracks) |->
        IF RatLt(tracks[k][2], Zero)
        THEN <<[i \in 1..Len(tracks[k][1]) |-> Zero], One>>
        ELSE tracks[k]]

HasNegativeVolume(tracks) ==
    \E k \in 1..Len(tracks) : RatLt(tracks[k][2], Zero)

\* C22: a track given a negative volume contributes nothing to the sum: the
\* call ends as it would with that track replaced by silence of the same
\* length, so the track is neither inverted nor subtracted and still counts
\* toward the output length.
C22_NegativeVolumeIsSilent ==
    (MixCalled /\ HasNegativeVolume(tracks_with_volumes)) =>
        /\ final_mix = MixTracks(master_amplitude, Silenced(tracks_with_volumes))
        /\ MixReturned => Len(final_mix.wave) = MaxLen(tracks_with_volumes)

C22_Witness ==
    /\ MixReturned
    /\ Len(tracks_with_volumes) = 2
    /\ tracks_with_volumes[1][2] = <<-1, 1>>
    /\ tracks_with_volumes[1][1] = <<<<1, 2>>, <<-3, 2>>>>
    /\ tracks_with_volumes[2][2] = One
    /\ tracks_with_volumes[2][1] = <<<<1, 2>>>>
    /\ master_amplitude = One
    /\ final_mix.wave = <<<<1, 2>>, Zero>>

\* C23: mix_tracks on an empty track list returns a zero-length buffer and
\* raises nothing, whatever the mixer's master_amplitude.
C23_EmptyMix ==
    (MixCalled /\ Len(tracks_with_volumes) = 0) => final_mix = Returned(<<>>)

C23_Witness ==
    /\ MixCalled
    /\ tracks_with_volumes = <<>>
    /\ ma_arg = <<3, 2>>
    /\ final_mix.status = "ok"
    /\ Len(final_mix.wave) = 0

----------------------------------------------------------------------------
(* Claims about SongPlayer.get_note_waveform, checked under SpecNote       *)

NoteCalled == note_call.called
NoteReturned == note_wave.status = "ok"

\* sample_rate * duration_s of the call, truncated and rounded to nearest
\* (Python's round: halves go to the even neighbour)
Truncated(x) == x[1] \div x[2]
Rounded(x) ==
    LET low == x[1] \div x[2]
        twice == 2 * (x[1] % x[2])
    IN  IF twice < x[2] THEN low
        ELSE IF twice > x[2] THEN low + 1
        ELSE IF low % 2 = 0 THEN low ELSE low + 1
SampleProduct(sample_rate, duration_s) ==
    <<sample_rate * duration_s[1], duration_s[2]>>

\* C5: an event of zero duration is legal for every instrument and every
\* frequency set, rest or not: get_note_waveform returns a zero-length
\* buffer and never raises.
C5_ZeroDurationLegal ==
    (NoteCalled /\ note_call.duration_s = Zero) =>
        (NoteReturned /\ Len(note_wave.wave) = 0)

Resolvable(note_name) == GetFrequency(player.a4, note_name).kind = "freq"
ResolvableNames == SelectSeq(note_call.note_list, Resolvable)

\* C9: the frequencies handed on are exactly those of the resolvable names of
\* the event, in order; the unresolvable names are skipped, so the call does
\* what the call on the resolvable names alone does; and when no name
\* resolves the chunk is all-zero with the event's normal sample count.
C9_UnresolvableSkipped ==
    NoteCalled =>
        /\ note_wave.frequencies
              = [i \in 1..Len(ResolvableNames) |->
                    GetFrequency(player.a4, ResolvableNames[i])]
        /\ note_wave = GetNoteWaveform(player, ResolvableNames, note_call.duration_s,
                                       note_call.amplitude, note_call.raw_wave)
        /\ Len(ResolvableNames) = 0 =>
              /\ NoteReturned
              /\ note_wave.wave
                    = NpZeros(Truncated(SampleProduct(player.sample_rate,
                                                      note_call.duration_s)))

C9_Witness ==
    /\ NoteReturned
    /\ Len(note_call.note_list) = 3
    /\ Len(ResolvableNames) = 2
    /\ note_wave.frequencies = <<Frequency(<<440, 1>>, 0), Frequency(<<440, 1>>, 4)>>
    /\ Len(note_wave.wave) = 3

----------------------------------------------------------------------------
(* Claims about the release fade, checked under SpecFade                   *)

\* the number of samples in min(5% of the duration, 10 ms)
FadeWindow ==
    LET five_percent == RatMul(note_call.duration_s, <<1, 20>>)
        shorter == IF RatLt(five_percent, <<1, 100>>) THEN five_percent ELSE <<1, 100>>
    IN  Truncated(SampleProduct(player.sample_rate, shorter))

\* the chunk as get_chord_waveform hands it to the fade
BaseWave ==
    GetChordWaveform(player.instrument, note_wave.frequencies, note_call.duration_s,
                     player.sample_rate, note_call.amplitude, note_call.raw_wave).wave

\* the gain of a linear ramp from 1 to 0 over count >= 2 samples, at its j-th sample
LinearGain(count, j) == Rat(count - j, count - 1)

\* C11 as stated: whenever the window holds at least one sample, the chunk's
\* final sample has gain 0, the first sample of the window has gain 1, the
\* gains between ramp linearly and the samples before the window are unchanged.
C11_FadeToZero ==
    (NoteReturned /\ FadeWindow >= 1) =>
        LET n == Len(note_wave.wave)
            first == n - FadeWindow
            base == BaseWave
        IN  /\ n = Len(base)
            /\ \A i \in 1..first : note_wave.wave[i] = base[i]
            /\ note_wave.wave[first + 1] = base[first + 1]
            /\ note_wave.wave[n] = Zero
            /\ FadeWindow >= 2 =>
                  \A j \in 1..FadeWindow :
                      note_wave.wave[first + j]
                          = RatMul(base[first + j], LinearGain(FadeWindow, j))

\* C11 as amended: a window of two or more samples is the last samples of the
\* chunk, its gains ramp linearly from 1 on its first sample to 0 on the
\* chunk's final sample, and the samples before it are unchanged; a window of
\* one sample or none leaves the whole chunk unchanged, final sample included.
C11_FadeWindow ==
    NoteReturned =>
        LET n == Len(note_wave.wave)
            first == n - FadeWindow
            base == BaseWave
        IN  /\ n = Len(base)
            /\ FadeWindow < n \/ FadeWindow = 0
            /\ FadeWindow >= 2 =>
                  /\ \A i \in 1..first : note_wave.wave[i] = base[i]
                  /\ \A j \in 1..FadeWindow :
                        note_wave.wave[first + j]
                            = RatMul(base[first + j], LinearGain(FadeWindow, j))
                  /\ note_wave.wave[first + 1] = base[first + 1]
                  /\ note_wave.wave[n] = Zero
            /\ FadeWindow <= 1 => note_wave.wave = base

C11_Witness ==
    /\ NoteReturned
    /\ FadeWindow = 3
    /\ LET n == Len(note_wave.wave)
           base == BaseWave
       IN  /\ n = 60
           /\ base[n] # Zero
           /\ note_wave.wave[n] = Zero
           /\ note_wave.wave[n - 1] = RatMul(base[n - 1], <<1, 2>>)
           /\ note_wave.wave[n - 1] # Zero
           /\ note_wave.wave[n - 2] = base[n - 2]
           /\ note_wave.wave[n - 3] = base[n - 3]
           /\ note_wave.wave[n - 3] # Zero

----------------------------------------------------------------------------
(* Claims about the envelopes, checked under SpecEnvelope                  *)

\* int(sample_rate * seconds) of the envelope call
RawSegment(seconds) == Truncated(SampleProduct(envelope.sample_rate, seconds))

\* C12: for every attack_s >= 0, decay_s >= 0, sample rate and buffer length
\* N, in apply_ads_envelope and in Drums._create_envelope alike, the attack,
\* decay and sustain sample counts are each >= 0 and sum to exactly N, so
\* attack + decay never exceeds N; each count is the requested one clamped to
\* what is left; and a zero-length buffer comes back unchanged.
C12_SegmentsFillBuffer ==
    envelope.called =>
        LET seg == envelope.segments
            N == envelope.num_samples
        IN  /\ seg.attack_samples >= 0
            /\ seg.decay_samples >= 0
            /\ seg.sustain_samples >= 0
            /\ seg.attack_samples + seg.decay_samples + seg.sustain_samples = N
            /\ seg.attack_samples + seg.decay_samples <= N
            /\ seg.attack_samples
                  = (IF RawSegment(envelope.attack_s) < N
                     THEN RawSegment(envelope.attack_s) ELSE N)
            /\ seg.decay_samples
                  = (IF RawSegment(envelope.decay_s) < N - seg.attack_samples
                     THEN RawSegment(envelope.decay_s) ELSE N - seg.attack_samples)
            /\ Len(envelope.out) = N
            /\ N = 0 => envelope.out = envelope.waveform

C12_Witness ==
    /\ envelope.called
    /\ envelope.method = "apply_ads_envelope"
    /\ envelope.num_samples = 4
    /\ RawSegment(envelope.attack_s) = 2
    /\ RawSegment(envelope.decay_s) = 4
    /\ envelope.segments
          = [attack_samples |-> 2, decay_samples |-> 2, sustain_samples |-> 0]

\* the gain on sample i: the envelope itself for _create_envelope, the ratio
\* of output to input sample for apply_ads_envelope
GainAt(i) ==
    IF envelope.method = "_create_envelope"
    THEN envelope.out[i]
    ELSE RatDiv(envelope.out[i], envelope.waveform[i])

\* C13: for every attack_s >= 0, decay_s >= 0, sustain_level in [0,1] and
\* N >= 1, every gain is in [0,1]; the first gain is 0 when attack_samples > 0,
\* 1 when attack_samples = 0 and decay_samples > 0, and sustain_level when
\* both are 0; every gain after attack + decay equals sustain_level.
C13_EnvelopeShape ==
    (envelope.called /\ envelope.num_samples >= 1) =>
        LET seg == envelope.segments
            N == envelope.num_samples
        IN  /\ \A i \in 1..N : RatLe(Zero, GainAt(i)) /\ RatLe(GainAt(i), One)
            /\ seg.attack_samples > 0 => GainAt(1) = Zero
            /\ (seg.attack_samples = 0 /\ seg.decay_samples > 0) => GainAt(1) = One
            /\ (seg.attack_samples = 0 /\ seg.decay_samples = 0)
                  => GainAt(1) = envelope.sustain_level
            /\ \A i \in (seg.attack_samples + seg.decay_samples + 1)..N :
                  GainAt(i) = envelope.sustain_level

C13_Witness ==
    /\ envelope.called
    /\ envelope.method = "apply_ads_envelope"
    /\ envelope.num_samples = 4
    /\ envelope.sustain_level = <<1, 2>>
    /\ envelope.segments
          = [attack_samples |-> 2, decay_samples |-> 1, sustain_samples |-> 1]
    /\ <<GainAt(1), GainAt(2), GainAt(3), GainAt(4)>> = <<Zero, One, One, <<1, 2>>>>

----------------------------------------------------------------------------
(* Claims about NoteFrequencies.get_frequency                              *)

\* the spellings the grammar and the pitch-class table accept
Letters == {"A", "B", "C", "D", "E", "F", "G"}
Spellings ==
    {<<l, "">> : l \in Letters}
        \cup {<<l, "#">> : l \in {"C", "D", "F", "G", "A"}}
        \cup {<<l, "b">> : l \in {"D", "E", "G", "A", "B"}}

\* s is one letter, an optional accidental and one digit, nothing else, and
\* its letter and accidental are a recognised spelling
WholeGrammar(s) ==
    \/ Len(s) = 2 /\ <<s[1], "">> \in Spellings /\ s[2] \in Digits
    \/ Len(s) = 3 /\ s[2] \in {"#", "b"} /\ <<s[1], s[2]>> \in Spellings
                  /\ s[3] \in Digits

\* C17: get_frequency returns None for every input that is not exactly one
\* letter A-G, an optional '#' or 'b' and one digit with a recognised
\* spelling; only inputs matching the whole grammar yield a frequency.
C17_RejectsMalformed ==
    \A c \in 1..Len(freq_calls) :
        freq_calls[c].result # None <=> WholeGrammar(freq_calls[c].note_name)

\* what does hold: every name of the whole grammar is resolved
C17_GrammarIsAccepted ==
    \A c \in 1..Len(freq_calls) :
        WholeGrammar(freq_calls[c].note_name) => freq_calls[c].result # None

\* the spelling and octave of a name of the whole grammar
SpellingOf(s) == IF Len(s) = 2 THEN <<s[1], "">> ELSE <<s[1], s[2]>>
OctaveOf(s) == DigitVal(s[Len(s)])

\* the absolute semitone index pitch_class + 12 * octave
SemitoneIndex(s) == NoteMap(SpellingOf(s)) + 12 * OctaveOf(s)

Resolved(c) == freq_calls[c].result # None

\* C18: over valid names get_frequency is strictly increasing in the
\* absolute semitone index, A4 (index 57) maps to the reference pitch
\* exactly, and the same pitch class one octave higher has exactly twice
\* the frequency.
C18_FrequencyLaw ==
    \A c, d \in 1..Len(freq_calls) :
        (Resolved(c) /\ Resolved(d)) =>
            LET i == SemitoneIndex(freq_calls[c].note_name)
                j == SemitoneIndex(freq_calls[d].note_name)
            IN  /\ i < j => FreqLess(freq_calls[c].result, freq_calls[d].result)
                /\ i = 57 => freq_calls[c].result = Frequency(freq_calc.a4, 0)
                /\ j = i + 12 => freq_calls[d].result = Twice(freq_calls[c].result)

\* what does hold: the order and the reference note
C18_MonotoneAndReference ==
    \A c, d \in 1..Len(freq_calls) :
        (Resolved(c) /\ Resolved(d)) =>
            LET i == SemitoneIndex(freq_calls[c].note_name)
                j == SemitoneIndex(freq_calls[d].note_name)
            IN  /\ i < j => FreqLess(freq_calls[c].result, freq_calls[d].result)
                /\ i = j => freq_calls[c].result = freq_calls[d].result
                /\ i = 57 => freq_calls[c].result = Frequency(freq_calc.a4, 0)

EnharmonicPairs ==
    {{<<"C", "#">>, <<"D", "b">>}, {<<"D", "#">>, <<"E", "b">>},
     {<<"F", "#">>, <<"G", "b">>}, {<<"G", "#">>, <<"A", "b">>},
     {<<"A", "#">>, <<"B", "b">>}}

\* C19: for every octave digit the sharp and the flat spelling of each of
\* C#/Db, D#/Eb, F#/Gb, G#/Ab, A#/Bb resolve to the same frequency, and the
\* 17 accepted spellings cover exactly the pitch classes 0..11.
C19_EnharmonicSpellings ==
    /\ \A c, d \in 1..Len(freq_calls) :
          LET s == freq_calls[c].note_name
              t == freq_calls[d].note_name
          IN  (/\ Len(s) = 3 /\ Len(t) = 3
               /\ {SpellingOf(s), SpellingOf(t)} \in EnharmonicPairs
               /\ s[3] = t[3])
              => /\ Resolved(c)
                 /\ freq_calls[c].result = freq_calls[d].result
    /\ \A c \in 1..Len(freq_calls) :
          Resolved(c) <=> SpellingOf(freq_calls[c].note_name) \in Spellings
    /\ Cardinality(Spellings) = 17
    /\ Spellings = NoteMapKeys
    /\ {NoteMap(k) : k \in Spellings} = 0..11

C19_Witness ==
    /\ Len(freq_calls) = 2
    /\ freq_calc.a4 = <<432, 1>>
    /\ freq_calls[1].note_name = <<"A", "#", "9">>
    /\ freq_calls[2].note_name = <<"B", "b", "9">>
    /\ freq_calls[1].result = Frequency(<<432, 1>>, 61)
    /\ freq_calls[2].result = Frequency(<<432, 1>>, 61)

----------------------------------------------------------------------------
(* Claims about drum events, checked under SpecDrumPlayer                  *)

\* the generator the claim assigns to a note name
ClaimedDrum(note_name) ==
    CASE note_name = <<"C", "4">> -> "kick"
      [] note_name = <<"D", "4">> -> "snare"
      [] note_name = <<"F", "4">> -> "tom"
      [] note_name = <<"G", "4">> -> "hat"

DrumNoteCalled == note_call.called /\ Len(calls) = 1

\* C28: whatever a4 the SongPlayer was given, an event naming C4, D4, F4 or
\* G4 rendered with a Drums instrument triggers kick, snare, tom or hat
\* respectively.
C28_DrumsWhateverA4 ==
    DrumNoteCalled =>
        /\ Len(calls[1].triggered) = Len(note_call.note_list)
        /\ \A k \in 1..Len(note_call.note_list) :
              calls[1].triggered[k] = ClaimedDrum(note_call.note_list[k])

\* what the code does: the names trigger their drums on a player with
\* a4 = 440, the pitch the Drums instance computed its triggers with; on a
\* player with another a4 the names trigger nothing and the event is silent
C28_DrumsOnlyAt440 ==
    DrumNoteCalled =>
        /\ Len(calls[1].triggered) = Len(note_call.note_list)
        /\ \A k \in 1..Len(note_call.note_list) :
              calls[1].triggered[k] = IF player.a4 = <<440, 1>>
                                      THEN ClaimedDrum(note_call.note_list[k])
                                      ELSE "none"
        /\ player.a4 # <<440, 1>> =>
              /\ note_wave.status = "ok"
              /\ \A i \in 1..Len(note_wave.wave) : note_wave.wave[i] = Zero

\* C4 played on a player tuned to 432 triggers nothing
C28_SilentAt432 ==
    /\ DrumNoteCalled
    /\ player.a4 = <<432, 1>>
    /\ note_call.note_list = <<<<"C", "4">>>>
    /\ calls[1].triggered = <<"none">>
    /\ note_wave.wave = <<Zero, Zero>>

----------------------------------------------------------------------------
(* Claims about normalize_to_16bit, checked under SpecScript               *)

\* x * 32767 truncated toward zero is q
TruncatesTo(x, q) ==
    /\ AbsInt(q) * x[2] <= AbsInt(x[1]) * 32767
    /\ AbsInt(x[1]) * 32767 < (AbsInt(q) + 1) * x[2]
    /\ (q > 0 => x[1] > 0) /\ (q < 0 => x[1] < 0)

\* the buffers of the claim: a mix_tracks output, or a track rendered with
\* |amplitude| <= 1 on an instrument whose sustain_level is in [0, 1]
InClaimedRange(call) ==
    \/ call.source = "mix"
    \/ /\ call.source = "track"
       /\ RatLe(RatAbs(song_wave.amplitude), One)
       /\ RatLe(Zero, player.instrument.sustain_level)
       /\ RatLe(player.instrument.sustain_level, One)

\* C29: every such buffer handed to normalize_to_16bit has all its samples
\* in [-1, 1], so every quantized value is sample * 32767 truncated, lies in
\* [-32767, 32767], stands at the place of its sample, has its sign or is 0,
\* and keeps the order of any two samples: nothing wraps around.
C29_NoWraparound ==
    \A c \in 1..Len(quantized) :
        InClaimedRange(quantized[c]) =>
            LET waveform == quantized[c].waveform
                waveform_int == quantized[c].waveform_int
            IN  /\ Len(waveform_int) = Len(waveform)
                /\ \A i \in 1..Len(waveform) :
                      /\ RatLe(RatNeg(One), waveform[i]) /\ RatLe(waveform[i], One)
                      /\ waveform_int[i] \in -32767..32767
                      /\ TruncatesTo(waveform[i], waveform_int[i])
                /\ \A i, j \in 1..Len(waveform) :
                      RatLe(waveform[i], waveform[j]) => waveform_int[i] <= waveform_int[j]

\* a melody at full amplitude is saved with a sample at each end of the
\* range, and its mix, scaled down, after it
C29_Witness ==
    /\ Len(quantized) = 2
    /\ quantized[1].source = "track"
    /\ InClaimedRange(quantized[1])
    /\ \E i, j \in 1..Len(quantized[1].waveform) :
          /\ quantized[1].waveform_int[i] = 32767
          /\ quantized[1].waveform_int[j] < 0
    /\ quantized[2].source = "mix"
    /\ \E i \in 1..Len(quantized[2].waveform) :
          quantized[2].waveform_int[i] \in 1..32766

\* outside the claim's range the cast is out of range and a build may wrap:
\* a sample of 3/2 is saved as a negative value
C29_WrapsOutside ==
    \E c \in 1..Len(quantized) : \E i \in 1..Len(quantized[c].waveform) :
        /\ ~InClaimedRange(quantized[c])
        /\ RatLt(One, quantized[c].waveform[i])
        /\ quantized[c].waveform_int[i] < 0

----------------------------------------------------------------------------
(* Claims about the live synth's shared state, checked under SpecSynth     *)

\* every read or write of g_oscillators was made by a thread holding
\* data_lock, and every phase is in [0, SAMPLE_RATE)
LockedAndInRange ==
    /\ last_access.thread # "none" => last_access.lock = last_access.thread
    /\ \A i \in 1..Len(g_oscillators) :
          g_oscillators[i].phase >= 0 /\ g_oscillators[i].phase < SAMPLE_RATE

\* a step of the callback leaves every 'freq' and 'amp' as it finds them,
\* and a write of it for a snapshot amp <= 0.001 resets the phase to 0
CallbackWritesPhase ==
    audio_thread' # audio_thread =>
        /\ \A i \in 1..MAX_HANDS :
              /\ g_oscillators'[i].freq = g_oscillators[i].freq
              /\ g_oscillators'[i].amp = g_oscillators[i].amp
              /\ i # audio_thread.i => g_oscillators'[i].phase = g_oscillators[i].phase
        /\ audio_thread.pc = "write_phase" =>
              LET snapshot == audio_thread.current_oscillators[audio_thread.i]
              IN  g_oscillators'[audio_thread.i].phase =
                      IF RatLe(snapshot.amp, <<1, 1000>>) THEN 0
                      ELSE IF snapshot.phase + audio_thread.frames >= SAMPLE_RATE
                      THEN snapshot.phase + audio_thread.frames - SAMPLE_RATE
                      ELSE snapshot.phase + audio_thread.frames

\* a step of the main loop leaves every 'phase' as it finds it
MainWritesFreqAndAmp ==
    main_thread' # main_thread =>
        \A i \in 1..MAX_HANDS : g_oscillators'[i].phase = g_oscillators[i].phase

\* C30: under every interleaving of the callback and the main loop, each
\* read or write of g_oscillators happens while its thread holds data_lock,
\* the callback writes only 'phase' and the main loop only 'freq' and 'amp',
\* every phase stays in [0, SAMPLE_RATE), and a callback that snapshots an
\* amp <= 0.001 resets that oscillator's phase to 0.
C30_SharedState ==
    /\ []LockedAndInRange
    /\ [][CallbackWritesPhase /\ MainWritesFreqAndAmp]_vars

\* the callback has advanced the phase of oscillator 1 from a snapshot taken
\* at amp 0.4, after the main loop had set that amp back to 0: the main
\* loop's update stands beside the callback's
C30_Witness ==
    /\ audio_thread.pc = "unlock_phase"
    /\ audio_thread.i = 1
    /\ audio_thread.current_oscillators[1].amp = <<2, 5>>
    /\ audio_thread.current_oscillators[1].phase = 0
    /\ g_oscillators[1].amp = Zero
    /\ g_oscillators[1].phase = 22050
    /\ last_access = [thread |-> "audio", op |-> "write", lock |-> "audio"]

----------------------------------------------------------------------------
(* Claims about SongParser._parse_file, checked under SpecParse            *)

\* the count written between "[REPEAT:" and "]" of the line read last, as the
\* digits of a natural number; -1 when it is anything else
RepeatCountRead ==
    LET line == Strip(parser.last.line)
        text == Strip(SubSeq(line, 9, Len(line) - 1))
    IN  IF Len(text) > 0 /\ \A i \in 1..Len(text) : text[i] \in Digits
        THEN DecimalValue(text, 1, 0)
        ELSE -1

RepeatRead ==
    /\ parser.last.read
    /\ StartsWith(Strip(parser.last.line), <<"[", "R", "E", "P", "E", "A", "T", ":">>)

\* C27: a [REPEAT: n] line read inside a track, n a natural number, turns the
\* event list D of that track into D followed by n further copies of D, in
\* order and of length (n + 1) * |D|, and changes nothing else; a [REPEAT]
\* line read outside any track, or with a count that is not an integer,
\* leaves every track's data and all settings as they were.
C27_Repeat ==
    RepeatRead =>
        LET before == parser.last
            c == before.current_track
            n == RepeatCountRead
        IN  /\ parser.global_settings = before.global_settings
            /\ parser.current_track = c
            /\ Len(parser.tracks) = Len(before.tracks)
            /\ \A t \in 1..Len(before.tracks) :
                  /\ parser.tracks[t].name = before.tracks[t].name
                  /\ parser.tracks[t].settings = before.tracks[t].settings
                  /\ (t # c \/ n < 0) =>
                        parser.tracks[t].data = before.tracks[t].data
                  /\ (t = c /\ n >= 0) =>
                        LET D == before.tracks[t].data
                            data == parser.tracks[t].data
                        IN  /\ Len(data) = (n + 1) * Len(D)
                            /\ \A i \in 1..Len(data) :
                                  data[i] = D[((i - 1) % Len(D)) + 1]

\* a track of two events is repeated twice: six events, the two in turn
C27_Witness ==
    /\ RepeatRead
    /\ RepeatCountRead = 2
    /\ parser.last.current_track = 1
    /\ parser.last.tracks[1].data =
          <<<<<<<<"C", "4">>>>, One>>, <<<<<<"A", "4">>, <<"C", "4">>>>, Rat(1, 2)>>>>
    /\ Len(parser.tracks[1].data) = 6
    /\ parser.tracks[1].data[5] = parser.last.tracks[1].data[1]

----------------------------------------------------------------------------
(* Claims about SongParser._build_tracks, checked under SpecBuild          *)

\* _build_tracks got past the global settings
TracksBuilt == build.called /\ build.stage # "settings"

\* the tracks that did not raise, and how many of them come before track k
Rendered == {k \in 1..Len(build.built) : build.built[k].status = "ok"}
RenderedBefore(k) == Cardinality({j \in Rendered : j < k})

\* every track is attempted whatever became of the others; the tracks that
\* raised are omitted, and the others reach the mixer in file order, each
\* with its own volume
TracksIsolated ==
    TracksBuilt =>
        /\ Len(build.built) = Len(build.tracks)
        /\ build.stage # "no_tracks" =>
              /\ Len(build.generated_tracks) = Cardinality(Rendered)
              /\ \A k \in Rendered :
                    build.generated_tracks[RenderedBefore(k) + 1]
                        = <<build.built[k].wave, build.built[k].volume>>
        /\ build.stage = "no_tracks" <=> Rendered = {}

\* C25: a track whose instrument lookup or rendering raises is omitted,
\* every other track is rendered and handed to the mixer in file order with
\* its own volume, and the mix is made and saved unless no track at all was
\* generated.
C25_BuildIsolates ==
    /\ TracksIsolated
    /\ (TracksBuilt /\ Rendered # {}) => build.saved

\* what the code does: the failures of single tracks are isolated, and the
\* file is saved exactly when mix_tracks returned
C25_IsolatesUntilTheMix ==
    /\ TracksIsolated
    /\ build.called => (build.saved <=> build.stage = "saved")
    /\ (TracksBuilt /\ Rendered # {} /\ ~build.saved) =>
          /\ build.stage = "mixing"
          /\ build.status = "ValueError"
          /\ \A k \in Rendered : Len(build.built[k].wave) = 0

\* a track that raises is omitted and the track after it is rendered, mixed
\* and saved
C25_OmittedAndRendered ==
    /\ build.called
    /\ Len(build.built) = 2
    /\ build.built[1].status = "ValueError"
    /\ build.built[2].status = "ok"
    /\ Len(build.generated_tracks) = 1
    /\ Len(build.generated_tracks[1][1]) = 2
    /\ build.saved

----------------------------------------------------------------------------
(* Claims about InstrumentFactory, checked under SpecFactory               *)

\* the two strings are the same up to the case of their letters
SameIgnoringCase(a, b) ==
    /\ Len(a) = Len(b)
    /\ \A i \in 1..Len(a) :
          \/ a[i] = b[i]
          \/ \E j \in 1..26 : {a[i], b[i]} = {Uppers[j], Lowers[j]}

\* the registry a factory that found these classes holds
LowerKeyOf(class) ==
    CASE class = "Sine" -> <<"s", "i", "n", "e">>
      [] class = "Square" -> <<"s", "q", "u", "a", "r", "e">>
      [] class = "Sawtooth" -> <<"s", "a", "w", "t", "o", "o", "t", "h">>
      [] class = "Bass" -> <<"b", "a", "s", "s">>
      [] class = "Drums" -> <<"d", "r", "u", "m", "s">>
      [] class = "Piano" -> <<"p", "i", "a", "n", "o">>

\* the classes the factory found when it was built
RegisteredClasses == UNION {ModuleClasses(m) : m \in factory.importable}

\* C21: for every name create_instrument returns a new instance of the
\* registered class whose name equals it up to case, when there is one, and
\* raises ValueError otherwise; the registry stays as the constructor loaded
\* it.
C21_CreateInstrument ==
    /\ \A c \in 1..Len(created) :
          LET named == {class \in RegisteredClasses :
                           SameIgnoringCase(created[c].name, ClassChars(class))}
          IN  IF named = {}
              THEN created[c].status = "ValueError"
              ELSE /\ created[c].status = "ok"
                   /\ created[c].obj.name \in named
                   /\ \A d \in 1..Len(created) :
                         (d # c /\ created[d].status = "ok")
                             => created[d].instance # created[c].instance
    /\ DOMAIN factory.loaded_plugins = {LowerKeyOf(class) : class \in RegisteredClasses}
    /\ \A class \in RegisteredClasses :
          factory.loaded_plugins[LowerKeyOf(class)] = class

C21_Witness ==
    /\ Len(created) = 2
    /\ factory.importable = PluginModules
    /\ created[1].name = <<"S", "I", "N", "E">>
    /\ created[1].status = "ok"
    /\ created[1].obj = Sine
    /\ created[2].name = <<"b", "a", "n", "j", "o">>
    /\ created[2].status = "ValueError"

----------------------------------------------------------------------------
(* Claims about instrument calls, checked under SpecInstrument             *)

AllZero(w) == \A i \in 1..Len(w) : w[i] = Zero

\* C14: for every instrument and every non-empty frequency list rendered on
\* at least one sample, the call returns and the buffer handed to the
\* envelope stage has peak absolute value |amplitude|, unless the raw
\* synthesis is identically zero: then nothing is divided and the buffer
\* stays all-zero.
C14_PeakNormalization ==
    \A c \in 1..Len(calls) :
        (/\ Len(calls[c].frequencies) > 0
         /\ Truncated(SampleProduct(calls[c].sample_rate, calls[c].duration_s)) >= 1)
        => /\ calls[c].status = "ok"
           /\ Len(calls[c].normalized) = Len(calls[c].raw)
           /\ IF AllZero(calls[c].raw)
              THEN AllZero(calls[c].normalized)
              ELSE Peak(calls[c].normalized) = RatAbs(calls[c].amplitude)

C14_Witness ==
    \E c \in 1..Len(calls) :
        /\ Len(calls[c].frequencies) > 0
        /\ calls[c].amplitude = <<-1, 2>>
        /\ Len(calls[c].raw) = 2
        /\ Peak(calls[c].raw) = <<1, 2>>
        /\ Peak(calls[c].normalized) = <<1, 2>>
        /\ calls[c].normalized[1] = <<-1, 2>>

\* C15: for every instrument variant a call with an empty frequency list,
\* on the instrument or through the mixer, returns an all-zero buffer of the
\* event's sample count without asking the plugin's _generate_wave, and a
\* SongPlayer built on the instrument renders an empty note list to the same
\* buffer.
C15_RestIsSilence ==
    \A c \in 1..Len(calls) :
        Len(calls[c].frequencies) = 0 =>
            LET count == Truncated(SampleProduct(calls[c].sample_rate,
                                                 calls[c].duration_s))
                silence == [i \in 1..count |-> Zero]
                p == SongPlayerInit(120, instrument.obj, <<"4", "/", "4">>,
                                    calls[c].sample_rate, <<440, 1>>)
            IN  /\ calls[c].status = "ok"
                /\ calls[c].wave = silence
                /\ calls[c].generate_calls = 0
                /\ GetNoteWaveform(p, <<>>, calls[c].duration_s, calls[c].amplitude,
                                   <<>>)
                      = [status |-> "ok", wave |-> silence, frequencies |-> <<>>]

C15_Witness ==
    /\ instrument.obj.name = "Drums"
    /\ \E c \in 1..Len(calls) :
          /\ calls[c].method = "get_waveform"
          /\ calls[c].frequencies = <<>>
          /\ calls[c].wave = <<Zero, Zero>>

SameArguments(c, d) ==
    /\ calls[c].frequencies = calls[d].frequencies
    /\ calls[c].duration_s = calls[d].duration_s
    /\ calls[c].sample_rate = calls[d].sample_rate
    /\ calls[c].amplitude = calls[d].amplitude

SameOutcome(c, d) ==
    calls[c].status = calls[d].status /\ calls[c].wave = calls[d].wave

\* the instrument still has the envelope parameters its constructor gave it
ParametersUnchanged == instrument.obj = Construct(instrument.obj.name)

DrawsNoise(c) ==
    \E k \in 1..Len(calls[c].triggered) : calls[c].triggered[k] \in {"snare", "hat"}

----------------------------------------------------------------------------
(* Claims about Drums._generate_wave, checked under SpecDrums              *)

\* the trigger note of each generator
TriggerNote(gen) ==
    CASE gen = "kick" -> Note(<<"C", "4">>)
      [] gen = "snare" -> Note(<<"D", "4">>)
      [] gen = "tom" -> Note(<<"F", "4">>)
      [] gen = "hat" -> Note(<<"G", "4">>)

\* the generators whose trigger the entry matches
Matches(freq) ==
    {gen \in {"kick", "snare", "tom", "hat"} : IsClose(freq, TriggerNote(gen))}

\* what entry k adds to each sample: its generator's source times its
\* envelope, or nothing
EntryContribution(c, k, matching) ==
    IF matching = {} THEN [i \in 1..c.num_samples |-> Zero]
    ELSE LET gen == CHOOSE g \in matching : TRUE
             source == IF gen \in {"snare", "hat"} THEN c.noise[k] ELSE c.det[gen]
             curve == GeneratorEnvelope(gen, c.num_samples, c.sample_rate)
         IN  [i \in 1..c.num_samples |-> RatMul(source[i], curve[i])]

\* the sum over the entries from k on of what each adds to sample i
RECURSIVE SumEntries(_, _, _)
SumEntries(added, k, i) ==
    IF k > Len(added) THEN Zero
    ELSE RatAdd(added[k][i], SumEntries(added, k + 1, i))

\* C20: every entry of the frequency list triggers at most one generator:
\* kick for C4, snare for D4, tom for F4, hat for G4, none otherwise; the raw
\* wave is the sample-wise sum of the triggered generators, a repeated entry
\* counted each time; and a list of unmatched entries only gives an all-zero
\* buffer of the full length.
C20_DrumDispatch ==
    \A n \in 1..Len(calls) :
        LET c == calls[n]
            matching == [k \in 1..Len(c.frequencies) |-> Matches(c.frequencies[k])]
            added == [k \in 1..Len(c.frequencies) |->
                         EntryContribution(c, k, matching[k])]
        IN  /\ \A k \in 1..Len(c.frequencies) :
                  /\ Cardinality(matching[k]) <= 1
                  /\ c.triggered[k] \in matching[k]
                        \/ (c.triggered[k] = "none" /\ matching[k] = {})
            /\ Len(c.raw) = c.num_samples
            /\ \A i \in 1..c.num_samples : c.raw[i] = SumEntries(added, 1, i)
            /\ (\A k \in 1..Len(c.frequencies) : matching[k] = {})
                  => c.raw = [i \in 1..c.num_samples |-> Zero]

C20_Witness ==
    /\ Len(calls) = 1
    /\ calls[1].frequencies = <<Note(<<"C", "4">>), Note(<<"C", "4">>)>>
    /\ calls[1].num_samples = 3
    /\ calls[1].triggered = <<"kick", "kick">>
    /\ calls[1].raw[1] = RatMul(<<2, 1>>, calls[1].det["kick"][1])
    /\ calls[1].raw[2] = calls[1].det["kick"][2]
    /\ calls[1].raw[3] = Zero

----------------------------------------------------------------------------
(* Claims about SongPlayer.generate_song_waveform, checked under SpecSong  *)

SongReturned == song_wave.status = "ok"

\* (60 / tempo) * (beat_unit / 4) * num_beats
ClaimedDuration(tempo, beat_unit, num_beats) ==
    Rat(60 * beat_unit * num_beats[1], tempo * 4 * num_beats[2])

\* the length the same event has on a player built with (tempo, ts)
LengthOn(tempo, ts, k) ==
    LET other == SongPlayerInit(tempo, player.instrument, ts, player.sample_rate,
                                player.a4)
    IN  Len(GetNoteWaveform(other, song_data[k][1],
                            EventDuration(other, song_data[k][2]),
                            song_wave.amplitude, song_wave.raws[k]).wave)

\* C6: every event lasts (60 / tempo) * (beat_unit / 4) * num_beats seconds, so
\* the chunk length depends on the time signature through beat_unit alone, and
\* players with the same tempo / beat_unit ratio render an event to chunks of
\* equal length.
C6_QuarterNoteDuration ==
    SongReturned =>
        \A k \in 1..Len(song_data) :
            LET claimed == ClaimedDuration(player.tempo, player.beat_unit,
                                           song_data[k][2])
            IN  /\ song_wave.chunks[k].duration_s = claimed
                /\ Len(song_wave.chunks[k].wave)
                      = Truncated(SampleProduct(player.sample_rate, claimed))
                /\ \A tempo \in Tempos, ts \in TimeSignatures :
                      (tempo * player.beat_unit
                          = player.tempo * ParseTimeSignature(ts)[2])
                      => LengthOn(tempo, ts, k) = Len(song_wave.chunks[k].wave)

C6_Witness ==
    /\ SongReturned
    /\ player.tempo = 240
    /\ player.beats_per_measure = 6
    /\ player.beat_unit = 8
    /\ \E k \in 1..Len(song_data) :
          /\ song_data[k][2] = One
          /\ Len(song_wave.chunks[k].frequencies) > 0
          /\ Len(song_wave.chunks[k].wave) = 1
          /\ LengthOn(120, <<"4", "/", "4">>, k) = 1

RECURSIVE SumOver(_, _, _)
SumOver(Count(_), from, to) ==
    IF from > to THEN 0 ELSE Count(from) + SumOver(Count, from + 1, to)

EventProduct(k) ==
    SampleProduct(player.sample_rate,
                  ClaimedDuration(player.tempo, player.beat_unit, song_data[k][2]))
TruncatedCount(k) == Truncated(EventProduct(k))
RoundedCount(k) == Rounded(EventProduct(k))

SongCalled == song_wave.status # "not_called"

Retimed == "beat_duration_s" \in DOMAIN player

\* C24: after player.tempo and player.beat_duration_s are assigned, every
\* event of the next generate_song_waveform call lasts
\* (60 / current player.tempo) * (beat_unit / 4) * num_beats seconds.
C24_RetimingTakesEffect ==
    SongReturned =>
        \A k \in 1..Len(song_data) :
            song_wave.chunks[k].duration_s
                = ClaimedDuration(player.tempo, player.beat_unit, song_data[k][2])

\* what the code does: the duration follows quarter_note_duration_s, which
\* the re-timing leaves as the constructor computed it
C24_DurationFollowsQuarterNote ==
    SongReturned =>
        \A k \in 1..Len(song_data) :
            /\ song_wave.chunks[k].duration_s
                  = RatMul(player.quarter_note_duration_s, song_data[k][2])
            /\ player.quarter_note_duration_s
                  = RatMul(player.base_beat_duration_s, Rat(player.beat_unit, 4))
            /\ Retimed => player.base_beat_duration_s # Rat(60, player.tempo)

\* C26: generate_song_waveform called with a score of no events completes
\* and returns a zero-length buffer rather than raising.
C26_EmptyScoreReturns ==
    (SongCalled /\ Len(song_data) = 0) =>
        (song_wave.status = "ok" /\ song_wave.wave = <<>>)

\* what the code does on the empty score: np.concatenate([]) raises
C26_EmptyScoreRaises ==
    (SongCalled /\ Len(song_data) = 0) => song_wave.status = "ValueError"

----------------------------------------------------------------------------
(* Claims about SongPlayer.__init__, checked under SpecCtor                *)

IsInteger(s) == Len(s) > 0 /\ \A i \in 1..Len(s) : s[i] \in Digits

\* the string is <integer>/<integer>, the slash at position i
WellFormedAt(s, i) ==
    /\ s[i] = "/"
    /\ IsInteger(SubSeq(s, 1, i - 1))
    /\ IsInteger(SubSeq(s, i + 1, Len(s)))

\* C10: construction survives every time-signature string; a string that is
\* not <integer>/<integer> leaves beats_per_measure = 4 and beat_unit = 4, and
\* a well-formed string leaves exactly its two integers.
C10_TimeSignatureParse ==
    player.constructed =>
        IF \E i \in 1..Len(time_signature) : WellFormedAt(time_signature, i)
        THEN \E i \in 1..Len(time_signature) :
                /\ WellFormedAt(time_signature, i)
                /\ player.beats_per_measure
                      = DecimalValue(SubSeq(time_signature, 1, i - 1), 1, 0)
                /\ player.beat_unit
                      = DecimalValue(SubSeq(time_signature, i + 1,
                                            Len(time_signature)), 1, 0)
        ELSE player.beats_per_measure = 4 /\ player.beat_unit = 4

\* what the code does satisfy: the defaults come as a pair, and a string
\* whose first two parts are integers is taken as those two integers
C10_DefaultsComeAsPair ==
    player.constructed =>
        LET parts == Split(time_signature, "/")
        IN  IF Len(parts) >= 2 /\ IsInteger(parts[1]) /\ IsInteger(parts[2])
            THEN /\ player.beats_per_measure = DecimalValue(parts[1], 1, 0)
                 /\ player.beat_unit = DecimalValue(parts[2], 1, 0)
            ELSE player.beats_per_measure = 4 /\ player.beat_unit = 4

====
